---- MODULE Spec2Model ----
(***************************************************************************)
(* Hybrid Router of Project Beacon: the region queue manager               *)
(* (hybrid_router/core/region_queue.py) and the provider selector           *)
(* (hybrid_router/core/router.py).                                          *)
(*                                                                          *)
(* The queue manager runs on one asyncio event loop: a coroutine runs       *)
(* without interruption from one suspending await to the next.  A worker    *)
(* whose pc is "top" is the running coroutine: it has come back to the      *)
(* head of its while-loop without suspending, so no other step is enabled   *)
(* until it has looked at the lanes.                                        *)
(***************************************************************************)
EXTENDS Integers, Sequences, FiniteSets, TLC

\* ---------------------------------------------------------------- bounds
MaxJobs == 2
MaxTasks == 2
NumProviders == 3
MaxRuns == 3

\* ------------------------------------------------------------- constants
max_retries == 3
NoJob == 0
BackoffCap == 60
PauseSeconds == 1
NoProvider == 0

Regions == {"US", "EU", "ASIA"}
RegionInputs == {"US", "eu", "MARS"}
RetryInputs == {"EU"}
Jobs == 1..MaxJobs
Slots == 1..MaxTasks
Results == {"ok", "failure_result"}

VARIABLES
  queue,               \* RegionQueue.queue, per region
  retry_queue,         \* RegionQueue.retry_queue, per region
  unfinished,          \* asyncio.Queue._unfinished_tasks of RegionQueue.queue
  processing,          \* RegionQueue.processing
  current_job,         \* RegionQueue.current_job
  completed_count,     \* RegionQueue.completed_count
  failed_count,        \* RegionQueue.failed_count
  global_retry_queue,  \* RegionQueueManager.global_retry_queue
  workers_started,     \* RegionQueueManager.workers_started
  start_calls,         \* start_workers calls made so far: 0, 1, 2 or more
  worker,              \* the process_queue tasks: position, local job, sleep
  job,                 \* the QueuedJob objects
  attempts,            \* history: inference calls issued per job
  terminal,            \* history: which counter a job's end incremented
  providers,           \* HybridRouter.providers, the registry
  request,             \* the InferenceRequest of the latest select_provider call
  selected,            \* what that call returned: a registry index or NoProvider
  exec,                \* the run_inference call in progress: position and locals
  reply,               \* what the latest run_inference call gave its caller
  http_calls,          \* HTTP requests the latest run_inference call has issued
  checker,             \* position of the health_check_providers call
  probe,               \* position of each _check_provider_health coroutine
  timing               \* the metrics runs: the latency of each, how many so far

qvars == <<queue, retry_queue, unfinished, processing, current_job,
           completed_count, failed_count, global_retry_queue,
           workers_started, start_calls, worker, job, attempts, terminal>>

rvars == <<providers, request, selected, exec, reply, http_calls, checker,
           probe, timing>>

vars == <<qvars, rvars>>

\* str.upper() on the region names the model feeds in
Upper(s) == IF s = "eu" THEN "EU" ELSE s

RECURSIVE Pow2(_)
Pow2(n) == IF n = 0 THEN 1 ELSE 2 * Pow2(n - 1)

Min(a, b) == IF a <= b THEN a ELSE b
Max(a, b) == IF a >= b THEN a ELSE b

\* asyncio.sleep(min(2 ** job.retry_count, 60))
BackoffSeconds(rc) == Min(Pow2(rc), BackoffCap)

Unborn == [created |-> FALSE, accepted |-> FALSE, is_retry |-> FALSE, region |-> "",
           retry_count |-> 0, started_at |-> FALSE, completed_at |-> FALSE,
           last_error |-> FALSE]

\* QueuedJob(...) as api/inference.py builds it: the dataclass defaults
QueuedJob(region) == [created |-> TRUE, accepted |-> FALSE, is_retry |-> FALSE,
                      region |-> region,
                      retry_count |-> 0, started_at |-> FALSE,
                      completed_at |-> FALSE, last_error |-> FALSE]

NoWorker == [pc |-> "none", job |-> NoJob, sleep |-> 0]

\* The worker coroutines the event loop runs before it takes any new event:
\* a worker back at the head of its loop without having suspended, a task
\* start_workers has just created, and a getter that a put on its regular
\* queue has resumed.
Scheduled(r, k) ==
  \/ worker[r][k].pc \in {"top", "created"}
  \/ worker[r][k].pc = "waiting" /\ queue[r] # <<>>

Running == \E r \in Regions, k \in Slots : Scheduled(r, k)

\* next unused QueuedJob object
NextJob == CHOOSE j \in Jobs : ~job[j].created /\ \A i \in 1..(j-1) : job[i].created

CanCreate == \E j \in Jobs : ~job[j].created

InitQueues ==
  /\ queue = [r \in Regions |-> <<>>]
  /\ retry_queue = [r \in Regions |-> <<>>]
  /\ unfinished = [r \in Regions |-> 0]
  /\ processing = [r \in Regions |-> FALSE]
  /\ current_job = [r \in Regions |-> NoJob]
  /\ completed_count = [r \in Regions |-> 0]
  /\ failed_count = [r \in Regions |-> 0]
  /\ global_retry_queue = <<>>
  /\ workers_started = FALSE
  /\ start_calls = 0
  /\ worker = [r \in Regions |-> [k \in Slots |-> NoWorker]]
  /\ job = [j \in Jobs |-> Unborn]
  /\ attempts = [j \in Jobs |-> 0]
  /\ terminal = [j \in Jobs |-> "none"]

\* enqueue_job that falls back to the US queue for a region it does not know
enqueue_job_default_us(region) ==
  /\ ~Running
  /\ CanCreate
  /\ LET j == NextJob
         R == IF Upper(region) \in Regions THEN Upper(region) ELSE "US"
     IN /\ job' = [job EXCEPT ![j] = [QueuedJob(region) EXCEPT !.accepted = TRUE]]
        /\ queue' = [queue EXCEPT ![R] = Append(@, j)]
        /\ unfinished' = [unfinished EXCEPT ![R] = @ + 1]
  /\ UNCHANGED <<retry_queue, processing, current_job, completed_count,
                 failed_count, global_retry_queue, workers_started,
                 start_calls, worker, attempts, terminal>>
  /\ UNCHANGED rvars

\* RegionQueueManager.enqueue_job
enqueue_job(region) ==
  /\ ~Running
  /\ CanCreate
  /\ LET j == NextJob
         R == Upper(region)
     IN IF R \notin Regions
        THEN \* raise ValueError: the job object is dropped by the caller
             /\ job' = [job EXCEPT ![j] = QueuedJob(region)]
             /\ UNCHANGED <<queue, unfinished>>
        ELSE /\ job' = [job EXCEPT ![j] = [QueuedJob(region) EXCEPT !.accepted = TRUE]]
             /\ queue' = [queue EXCEPT ![R] = Append(@, j)]
             /\ unfinished' = [unfinished EXCEPT ![R] = @ + 1]
  /\ UNCHANGED <<retry_queue, processing, current_job, completed_count,
                 failed_count, global_retry_queue, workers_started,
                 start_calls, worker, attempts, terminal>>
  /\ UNCHANGED rvars

\* RegionQueue.enqueue(job, is_retry=True), called on a region's queue
enqueue_retry(R) ==
  /\ ~Running
  /\ CanCreate
  /\ LET j == NextJob
     IN /\ job' = [job EXCEPT ![j] = [QueuedJob(R) EXCEPT !.accepted = TRUE,
                                                       !.is_retry = TRUE]]
        /\ retry_queue' = [retry_queue EXCEPT ![R] = Append(@, j)]
  /\ UNCHANGED <<queue, unfinished, processing, current_job, completed_count,
                 failed_count, global_retry_queue, workers_started,
                 start_calls, worker, attempts, terminal>>
  /\ UNCHANGED rvars

\* the slot of the next process_queue task of a region (0 when all are taken)
FreeSlot(r) ==
  IF \E k \in Slots : worker[r][k].pc = "none"
  THEN CHOOSE k \in Slots : /\ worker[r][k].pc = "none"
                            /\ \A i \in 1..(k - 1) : worker[r][i].pc # "none"
  ELSE 0

\* asyncio.create_task(self.process_queue(region, inference_func)), per region
CreateTasks ==
  [r \in Regions |->
     IF FreeSlot(r) = 0 THEN worker[r]
     ELSE [worker[r] EXCEPT ![FreeSlot(r)] =
              [pc |-> "created", job |-> NoJob, sleep |-> 0]]]

\* start_workers without the workers_started check: every call creates tasks
start_workers_unguarded ==
  /\ ~Running
  /\ start_calls' = (IF start_calls < 2 THEN start_calls + 1 ELSE start_calls)
  /\ workers_started' = TRUE
  /\ worker' = CreateTasks
  /\ UNCHANGED <<queue, retry_queue, unfinished, processing, current_job,
                 completed_count, failed_count, global_retry_queue, job,
                 attempts, terminal>>
  /\ UNCHANGED rvars

\* RegionQueueManager.start_workers
start_workers ==
  /\ ~Running
  /\ start_calls' = (IF start_calls < 2 THEN start_calls + 1 ELSE start_calls)
  /\ IF workers_started
     THEN UNCHANGED <<workers_started, worker>>
     ELSE /\ workers_started' = TRUE
          /\ worker' = CreateTasks
  /\ UNCHANGED <<queue, retry_queue, unfinished, processing, current_job,
                 completed_count, failed_count, global_retry_queue, job,
                 attempts, terminal>>
  /\ UNCHANGED rvars

\* StartJob without the assignment to queue.current_job
StartJob_no_current(r, k, j) ==
  /\ processing' = [processing EXCEPT ![r] = TRUE]
  /\ current_job' = current_job
  /\ job' = [job EXCEPT ![j].started_at = TRUE]
  /\ worker' = [worker EXCEPT ![r][k] = [pc |-> "inference", job |-> j, sleep |-> 0]]
  /\ attempts' = [attempts EXCEPT ![j] = @ + 1]

\* asyncio.Queue.get() on a lane known to be non-empty, then lines 130-134:
\* the worker marks the region busy and issues the inference call
StartJob(r, k, j) ==
  /\ processing' = [processing EXCEPT ![r] = TRUE]
  /\ current_job' = [current_job EXCEPT ![r] = j]
  /\ job' = [job EXCEPT ![j].started_at = TRUE]
  /\ worker' = [worker EXCEPT ![r][k] = [pc |-> "inference", job |-> j, sleep |-> 0]]
  /\ attempts' = [attempts EXCEPT ![j] = @ + 1]

\* the lane checks under a manager-wide lock: a worker starts a job only while
\* no other region is processing one
Dequeue_one_at_a_time(r, k) ==
  /\ worker[r][k].pc \in {"top", "created"}
  /\ \A q \in Regions \ {r} : ~processing[q]
  /\ IF global_retry_queue # <<>>
     THEN /\ StartJob(r, k, Head(global_retry_queue))
          /\ global_retry_queue' = Tail(global_retry_queue)
          /\ UNCHANGED <<queue, retry_queue>>
     ELSE IF retry_queue[r] # <<>>
     THEN /\ StartJob(r, k, Head(retry_queue[r]))
          /\ retry_queue' = [retry_queue EXCEPT ![r] = Tail(@)]
          /\ UNCHANGED <<queue, global_retry_queue>>
     ELSE IF queue[r] # <<>>
     THEN /\ StartJob(r, k, Head(queue[r]))
          /\ queue' = [queue EXCEPT ![r] = Tail(@)]
          /\ UNCHANGED <<retry_queue, global_retry_queue>>
     ELSE /\ worker' = [worker EXCEPT ![r][k] = [pc |-> "waiting", job |-> NoJob, sleep |-> 0]]
          /\ UNCHANGED <<queue, retry_queue, global_retry_queue, processing,
                         current_job, job, attempts>>
  /\ UNCHANGED <<unfinished, completed_count, failed_count, workers_started,
                 start_calls, terminal>>
  /\ UNCHANGED rvars

\* the lane checks with a suspension between global_retry_queue.empty() and
\* global_retry_queue.get(): the worker yields after the test, and its get()
\* blocks when another worker has taken the job meanwhile
Dequeue_test_then_get(r, k) ==
  /\ worker[r][k].pc \in {"top", "created", "get_global"}
  /\ IF worker[r][k].pc = "get_global"
     THEN /\ global_retry_queue # <<>>
          /\ StartJob(r, k, Head(global_retry_queue))
          /\ global_retry_queue' = Tail(global_retry_queue)
          /\ UNCHANGED <<queue, retry_queue>>
     ELSE IF global_retry_queue # <<>>
     THEN /\ worker' = [worker EXCEPT ![r][k] =
                          [pc |-> "get_global", job |-> NoJob, sleep |-> 0]]
          /\ UNCHANGED <<queue, retry_queue, global_retry_queue, processing,
                         current_job, job, attempts>>
     ELSE IF retry_queue[r] # <<>>
     THEN /\ StartJob(r, k, Head(retry_queue[r]))
          /\ retry_queue' = [retry_queue EXCEPT ![r] = Tail(@)]
          /\ UNCHANGED <<queue, global_retry_queue>>
     ELSE IF queue[r] # <<>>
     THEN /\ StartJob(r, k, Head(queue[r]))
          /\ queue' = [queue EXCEPT ![r] = Tail(@)]
          /\ UNCHANGED <<retry_queue, global_retry_queue>>
     ELSE /\ worker' = [worker EXCEPT ![r][k] = [pc |-> "waiting", job |-> NoJob, sleep |-> 0]]
          /\ UNCHANGED <<queue, retry_queue, global_retry_queue, processing,
                         current_job, job, attempts>>
  /\ UNCHANGED <<unfinished, completed_count, failed_count, workers_started,
                 start_calls, terminal>>
  /\ UNCHANGED rvars

\* process_queue, lines 116-134: the lane checks at the head of the loop
Dequeue(r, k) ==
  /\ worker[r][k].pc \in {"top", "created"}
  /\ IF global_retry_queue # <<>>
     THEN /\ StartJob(r, k, Head(global_retry_queue))
          /\ global_retry_queue' = Tail(global_retry_queue)
          /\ UNCHANGED <<queue, retry_queue>>
     ELSE IF retry_queue[r] # <<>>
     THEN /\ StartJob(r, k, Head(retry_queue[r]))
          /\ retry_queue' = [retry_queue EXCEPT ![r] = Tail(@)]
          /\ UNCHANGED <<queue, global_retry_queue>>
     ELSE IF queue[r] # <<>>
     THEN /\ StartJob(r, k, Head(queue[r]))
          /\ queue' = [queue EXCEPT ![r] = Tail(@)]
          /\ UNCHANGED <<retry_queue, global_retry_queue>>
     ELSE \* await queue.queue.get() suspends on the empty regular queue
          /\ worker' = [worker EXCEPT ![r][k] = [pc |-> "waiting", job |-> NoJob, sleep |-> 0]]
          /\ UNCHANGED <<queue, retry_queue, global_retry_queue, processing,
                         current_job, job, attempts>>
  /\ UNCHANGED <<unfinished, completed_count, failed_count, workers_started,
                 start_calls, terminal>>
  /\ UNCHANGED rvars

\* process_queue, line 128: a put on the regular queue resumes the getter,
\* which returns that queue's head without looking at the retry lanes again
Wake(r, k) ==
  /\ worker[r][k].pc = "waiting"
  /\ queue[r] # <<>>
  /\ StartJob(r, k, Head(queue[r]))
  /\ queue' = [queue EXCEPT ![r] = Tail(@)]
  /\ UNCHANGED <<retry_queue, global_retry_queue, unfinished, completed_count,
                 failed_count, workers_started, start_calls, terminal>>
  /\ UNCHANGED rvars

\* the finally block without the reset of current_job and processing
Finally_keeps_current(r, k) ==
  /\ UNCHANGED <<current_job, processing>>
  /\ IF unfinished[r] <= 0
     THEN /\ worker' = [worker EXCEPT ![r][k] =
                          [pc |-> "pause", job |-> NoJob, sleep |-> PauseSeconds]]
          /\ UNCHANGED unfinished
     ELSE /\ worker' = [worker EXCEPT ![r][k] = [pc |-> "top", job |-> NoJob, sleep |-> 0]]
          /\ unfinished' = [unfinished EXCEPT ![r] = @ - 1]

\* the finally block without the outer handler of the loop: the ValueError of
\* task_done() leaves process_queue and the task ends
Finally_unhandled(r, k) ==
  /\ current_job' = [current_job EXCEPT ![r] = NoJob]
  /\ processing' = [processing EXCEPT ![r] = FALSE]
  /\ IF unfinished[r] <= 0
     THEN /\ worker' = [worker EXCEPT ![r][k] = NoWorker]
          /\ UNCHANGED unfinished
     ELSE /\ worker' = [worker EXCEPT ![r][k] = [pc |-> "top", job |-> NoJob, sleep |-> 0]]
          /\ unfinished' = [unfinished EXCEPT ![r] = @ - 1]

\* process_queue, lines 169-176: the finally block; queue.queue.task_done()
\* raises ValueError when the regular queue has no unfinished task, which the
\* outer handler answers with asyncio.sleep(1)
Finally(r, k) ==
  /\ current_job' = [current_job EXCEPT ![r] = NoJob]
  /\ processing' = [processing EXCEPT ![r] = FALSE]
  /\ IF unfinished[r] <= 0
     THEN /\ worker' = [worker EXCEPT ![r][k] =
                          [pc |-> "pause", job |-> NoJob, sleep |-> PauseSeconds]]
          /\ UNCHANGED unfinished
     ELSE /\ worker' = [worker EXCEPT ![r][k] = [pc |-> "top", job |-> NoJob, sleep |-> 0]]
          /\ unfinished' = [unfinished EXCEPT ![r] = @ - 1]

\* the success branch counting the job in its home region's queue instead
\* of the queue of the worker that ran it
InferenceReturns_counts_home(r, k, res) ==
  /\ ~Running
  /\ worker[r][k].pc = "inference"
  /\ LET j == worker[r][k].job
     IN /\ job' = [job EXCEPT ![j].completed_at = TRUE]
        /\ completed_count' = [completed_count EXCEPT ![Upper(job[j].region)] = @ + 1]
        /\ terminal' = [terminal EXCEPT ![j] = "completed"]
  /\ Finally(r, k)
  /\ UNCHANGED <<queue, retry_queue, global_retry_queue, failed_count,
                 workers_started, start_calls, attempts>>
  /\ UNCHANGED rvars

\* process_queue, lines 138-150: inference_func returns a result (which the
\* worker does not inspect)
InferenceReturns(r, k, res) ==
  /\ ~Running
  /\ worker[r][k].pc = "inference"
  /\ LET j == worker[r][k].job
     IN /\ job' = [job EXCEPT ![j].completed_at = TRUE]
        /\ completed_count' = [completed_count EXCEPT ![r] = @ + 1]
        /\ terminal' = [terminal EXCEPT ![j] = "completed"]
  /\ Finally(r, k)
  /\ UNCHANGED <<queue, retry_queue, global_retry_queue, failed_count,
                 workers_started, start_calls, attempts>>
  /\ UNCHANGED rvars

\* the retry handler with the put before the sleep: the job goes on the
\* global retry queue at once and the worker sleeps afterwards
InferenceRaises_put_first(r, k) ==
  /\ ~Running
  /\ worker[r][k].pc = "inference"
  /\ LET j == worker[r][k].job
         rc == job[j].retry_count + 1
     IN IF rc < max_retries
        THEN /\ job' = [job EXCEPT ![j].last_error = TRUE, ![j].retry_count = rc]
             /\ global_retry_queue' = Append(global_retry_queue, j)
             /\ worker' = [worker EXCEPT ![r][k] =
                             [pc |-> "backoff", job |-> j, sleep |-> BackoffSeconds(rc)]]
             /\ UNCHANGED <<failed_count, terminal, current_job, processing,
                            unfinished>>
        ELSE /\ job' = [job EXCEPT ![j].last_error = TRUE, ![j].retry_count = rc,
                                   ![j].completed_at = TRUE]
             /\ failed_count' = [failed_count EXCEPT ![r] = @ + 1]
             /\ terminal' = [terminal EXCEPT ![j] = "failed"]
             /\ Finally(r, k)
             /\ UNCHANGED global_retry_queue
  /\ UNCHANGED <<queue, retry_queue, completed_count,
                 workers_started, start_calls, attempts>>
  /\ UNCHANGED rvars

\* the retry handler with `retry_count <= max_retries` as its test: one
\* retry more
InferenceRaises_one_more(r, k) ==
  /\ ~Running
  /\ worker[r][k].pc = "inference"
  /\ LET j == worker[r][k].job
         rc == job[j].retry_count + 1
     IN IF rc <= max_retries
        THEN /\ job' = [job EXCEPT ![j].last_error = TRUE, ![j].retry_count = rc]
             /\ worker' = [worker EXCEPT ![r][k] =
                             [pc |-> "backoff", job |-> j, sleep |-> BackoffSeconds(rc)]]
             /\ UNCHANGED <<failed_count, terminal, current_job, processing,
                            unfinished>>
        ELSE /\ job' = [job EXCEPT ![j].last_error = TRUE, ![j].retry_count = rc,
                                   ![j].completed_at = TRUE]
             /\ failed_count' = [failed_count EXCEPT ![r] = @ + 1]
             /\ terminal' = [terminal EXCEPT ![j] = "failed"]
             /\ Finally(r, k)
  /\ UNCHANGED <<queue, retry_queue, global_retry_queue, completed_count,
                 workers_started, start_calls, attempts>>
  /\ UNCHANGED rvars

\* process_queue, lines 152-167: inference_func raises
InferenceRaises(r, k) ==
  /\ ~Running
  /\ worker[r][k].pc = "inference"
  /\ LET j == worker[r][k].job
         rc == job[j].retry_count + 1
     IN IF rc < max_retries
        THEN /\ job' = [job EXCEPT ![j].last_error = TRUE, ![j].retry_count = rc]
             /\ worker' = [worker EXCEPT ![r][k] =
                             [pc |-> "backoff", job |-> j, sleep |-> BackoffSeconds(rc)]]
             /\ UNCHANGED <<failed_count, terminal, current_job, processing,
                            unfinished>>
        ELSE /\ job' = [job EXCEPT ![j].last_error = TRUE, ![j].retry_count = rc,
                                   ![j].completed_at = TRUE]
             /\ failed_count' = [failed_count EXCEPT ![r] = @ + 1]
             /\ terminal' = [terminal EXCEPT ![j] = "failed"]
             /\ Finally(r, k)
  /\ UNCHANGED <<queue, retry_queue, global_retry_queue, completed_count,
                 workers_started, start_calls, attempts>>
  /\ UNCHANGED rvars

\* the backoff ends without the put on the global retry queue
BackoffDone_drops(r, k) ==
  /\ ~Running
  /\ worker[r][k].pc = "backoff"
  /\ Finally(r, k)
  /\ UNCHANGED <<queue, retry_queue, global_retry_queue, completed_count,
                 failed_count, workers_started, start_calls, job, attempts,
                 terminal>>
  /\ UNCHANGED rvars

\* the retry put on the region's own retry_queue instead of the global one
BackoffDone_regional(r, k) ==
  /\ ~Running
  /\ worker[r][k].pc = "backoff"
  /\ retry_queue' = [retry_queue EXCEPT ![r] = Append(@, worker[r][k].job)]
  /\ Finally(r, k)
  /\ UNCHANGED <<queue, global_retry_queue, completed_count, failed_count,
                 workers_started, start_calls, job, attempts, terminal>>
  /\ UNCHANGED rvars

\* process_queue, lines 161-162 and 169-172: the backoff sleep ends, the job
\* goes on the global retry queue, then the finally block runs
BackoffDone(r, k) ==
  /\ ~Running
  /\ worker[r][k].pc = "backoff"
  /\ global_retry_queue' = Append(global_retry_queue, worker[r][k].job)
  /\ Finally(r, k)
  /\ UNCHANGED <<queue, retry_queue, completed_count, failed_count,
                 workers_started, start_calls, job, attempts, terminal>>
  /\ UNCHANGED rvars

\* process_queue, lines 174-176: asyncio.sleep(1) ends, the loop resumes
PauseDone(r, k) ==
  /\ ~Running
  /\ worker[r][k].pc = "pause"
  /\ worker' = [worker EXCEPT ![r][k] = [pc |-> "top", job |-> NoJob, sleep |-> 0]]
  /\ UNCHANGED <<queue, retry_queue, unfinished, processing, current_job,
                 completed_count, failed_count, global_retry_queue,
                 workers_started, start_calls, job, attempts, terminal>>
  /\ UNCHANGED rvars

\* ------------------------------------------------------ provider selector
ProviderIds == 1..NumProviders
RegionPrefs == {"None", "", "us-east", "eu-west"}

\* Provider records as select_provider is given them; cost_per_second in
\* units of 0.00001 (Modal 0.00005, Golem 0.0001).  Of an unhealthy provider
\* the selector reads nothing but healthy, so one record per region stands
\* for it.  success_rate and last_health_check start at the dataclass
\* defaults.
ProviderChoices ==
  { p \in [region : {"us-east", "eu-west"}, cost_per_second : {5, 10},
           avg_latency : {0, 1}, max_concurrent : {0, 10}, healthy : BOOLEAN,
           success_rate : {"1.0"}, last_health_check : {0}] :
      /\ ~(p.cost_per_second = 10 /\ p.avg_latency = 1)
      /\ (~p.healthy => p.max_concurrent = 10 /\ p.cost_per_second = 5
                         /\ p.avg_latency = 0) }

Requests == [region_preference : RegionPrefs, cost_priority : BOOLEAN]
NoRequest == [region_preference |-> "None", cost_priority |-> TRUE, called |-> FALSE]

\* truth value of request.region_preference: None and "" are falsy
Truthy(pref) == pref \notin {"None", ""}

\* tuple comparison of the sort keys
TupleLess(a, b) == a[1] < b[1] \/ (a[1] = b[1] /\ a[2] < b[2])

SortKey(reg, i, cost_priority) ==
  IF cost_priority THEN <<reg[i].cost_per_second, reg[i].avg_latency>>
                   ELSE <<reg[i].avg_latency, reg[i].cost_per_second>>

\* list.sort(key=...): stable, so equal keys keep their list order
RECURSIVE InsertSorted(_, _, _, _)
InsertSorted(reg, x, sorted, cp) ==
  IF sorted = <<>> THEN <<x>>
  ELSE IF TupleLess(SortKey(reg, x, cp), SortKey(reg, Head(sorted), cp))
       THEN <<x>> \o sorted
       ELSE <<Head(sorted)>> \o InsertSorted(reg, x, Tail(sorted), cp)

RECURSIVE SortByKey(_, _, _)
SortByKey(reg, ps, cp) ==
  IF ps = <<>> THEN <<>>
  ELSE InsertSorted(reg, ps[Len(ps)], SortByKey(reg, SubSeq(ps, 1, Len(ps) - 1), cp), cp)

\* the for-loop of lines 282-289: first entry with max_concurrent > 0
RECURSIVE FirstWithCapacity(_, _)
FirstWithCapacity(reg, ps) ==
  IF ps = <<>> THEN NoProvider
  ELSE IF reg[Head(ps)].max_concurrent > 0 THEN Head(ps)
  ELSE FirstWithCapacity(reg, Tail(ps))

\* select_provider that falls back to every healthy provider when the
\* requested region has none
select_provider_fallback(reg, req) ==
  LET all == [i \in 1..Len(reg) |-> i]
      IsHealthy(i) == reg[i].healthy
      InRegion(i) == reg[i].region = req.region_preference
      healthy_providers == SelectSeq(all, IsHealthy)
      region_providers == SelectSeq(healthy_providers, InRegion)
  IN IF healthy_providers = <<>> THEN NoProvider
     ELSE LET pool == IF Truthy(req.region_preference) /\ region_providers # <<>>
                      THEN region_providers ELSE healthy_providers
              ranked == SortByKey(reg, pool, req.cost_priority)
              first == FirstWithCapacity(reg, ranked)
          IN IF first # NoProvider THEN first ELSE ranked[1]

\* select_provider that ranks by cost whatever cost_priority says
select_provider_cost_only(reg, req) ==
  LET all == [i \in 1..Len(reg) |-> i]
      IsHealthy(i) == reg[i].healthy
      InRegion(i) == reg[i].region = req.region_preference
      healthy_providers == SelectSeq(all, IsHealthy)
      region_providers == SelectSeq(healthy_providers, InRegion)
  IN IF healthy_providers = <<>> THEN NoProvider
     ELSE IF Truthy(req.region_preference) /\ region_providers = <<>> THEN NoProvider
     ELSE LET pool == IF Truthy(req.region_preference) THEN region_providers
                      ELSE healthy_providers
              ranked == SortByKey(reg, pool, TRUE)
              first == FirstWithCapacity(reg, ranked)
          IN IF first # NoProvider THEN first ELSE ranked[1]

\* select_provider that ranks the providers whose success_rate has dropped
\* below 1.0 behind all the others
select_provider_prefers_reliable(reg, req) ==
  LET all == [i \in 1..Len(reg) |-> i]
      IsHealthy(i) == reg[i].healthy
      InRegion(i) == reg[i].region = req.region_preference
      Reliable(i) == reg[i].success_rate = "1.0"
      Unreliable(i) == reg[i].success_rate # "1.0"
      healthy_providers == SelectSeq(all, IsHealthy)
      region_providers == SelectSeq(healthy_providers, InRegion)
  IN IF healthy_providers = <<>> THEN NoProvider
     ELSE IF Truthy(req.region_preference) /\ region_providers = <<>> THEN NoProvider
     ELSE LET pool == IF Truthy(req.region_preference) THEN region_providers
                      ELSE healthy_providers
              ranked == SortByKey(reg, SelectSeq(pool, Reliable), req.cost_priority)
                          \o SortByKey(reg, SelectSeq(pool, Unreliable), req.cost_priority)
              first == FirstWithCapacity(reg, ranked)
          IN IF first # NoProvider THEN first ELSE ranked[1]

\* HybridRouter.select_provider
select_provider(reg, req) ==
  LET all == [i \in 1..Len(reg) |-> i]
      IsHealthy(i) == reg[i].healthy
      InRegion(i) == reg[i].region = req.region_preference
      healthy_providers == SelectSeq(all, IsHealthy)
      region_providers == SelectSeq(healthy_providers, InRegion)
  IN IF healthy_providers = <<>> THEN NoProvider
     ELSE IF Truthy(req.region_preference) /\ region_providers = <<>> THEN NoProvider
     ELSE LET pool == IF Truthy(req.region_preference) THEN region_providers
                      ELSE healthy_providers
              ranked == SortByKey(reg, pool, req.cost_priority)
              first == FirstWithCapacity(reg, ranked)
          IN IF first # NoProvider THEN first ELSE ranked[1]

\* select_provider that sorts self.providers itself instead of the list it
\* has filtered from it
Select_sorts_registry(req) ==
  /\ request' = [region_preference |-> req.region_preference,
                 cost_priority |-> req.cost_priority, called |-> TRUE]
  /\ LET order == SortByKey(providers, [i \in 1..Len(providers) |-> i],
                            req.cost_priority)
         sorted == [i \in ProviderIds |-> providers[order[i]]]
     IN /\ providers' = sorted
        /\ selected' = select_provider(sorted, req)
  /\ UNCHANGED <<exec, reply, http_calls, checker, probe>>
  /\ UNCHANGED <<qvars, timing>>

\* a caller asks the selector for a provider: the list comprehensions of
\* select_provider build new lists, and it is those that are sorted
Select(req) ==
  /\ request' = [region_preference |-> req.region_preference,
                 cost_priority |-> req.cost_priority, called |-> TRUE]
  /\ selected' = select_provider(providers, req)
  /\ UNCHANGED providers
  /\ UNCHANGED <<exec, reply, http_calls, checker, probe>>
  /\ UNCHANGED <<qvars, timing>>


\* ------------------------------------------------- registry and HTTP data
\* Python None in a string-valued field; "" is the empty string
None == "None"

\* a key that a JSON object does not have
Absent == "absent"

Families == {"golem", "modal"}

\* Provider(...) as setup_providers builds it: the dataclass defaults.
\* avg_latency is 0 or 1, 1 standing for any positive value; success_rate is
\* "1.0" or "<1.0".
Provider(type, region, cost, conc) ==
  [type |-> type, region |-> region, cost_per_second |-> cost,
   max_concurrent |-> conc, healthy |-> TRUE, last_health_check |-> 0,
   avg_latency |-> 0, success_rate |-> "1.0"]

\* last_health_check, as the health checker's clock sees it: 0 is the
\* dataclass default, Earlier a time before the running
\* health_check_providers call began, Latest a time since
Earlier == 1
Latest == 2

\* time.time() moves on: what was the latest stamp is now an earlier one
Age(t) == IF t = Latest THEN Earlier ELSE t

\* the regions _get_region_from_endpoint gives the configured Golem endpoints
GolemRegions == {"us-east", "eu-west"}

NumGolem == NumProviders - 2

\* HybridRouter.setup_providers: the Golem providers of
\* GOLEM_PROVIDER_ENDPOINTS, then modal-us-east and modal-eu-west
setup_providers(golem) ==
  [i \in ProviderIds |->
     IF i <= NumGolem THEN Provider("golem", golem[i], 10, 5)
     ELSE IF i = NumGolem + 1 THEN Provider("modal", "us-east", 5, 10)
     ELSE Provider("modal", "eu-west", 5, 10)]

Statuses == {200, 303, 404, 500}

\* response bodies: text that is not JSON, the text of a stopped Modal
\* application (not JSON either), a JSON array, and JSON objects with some of
\* the keys success, response and error
NotJson == [kind |-> "not_json", success |-> Absent, response |-> Absent, error |-> Absent]
Stopped == [kind |-> "stopped", success |-> Absent, response |-> Absent, error |-> Absent]
JsonList == [kind |-> "list", success |-> Absent, response |-> Absent, error |-> Absent]

DictBodies ==
  { b \in [kind : {"dict"}, success : {Absent, "true", "false"},
           response : {Absent, "", "text"}, error : {Absent, "msg"}] :
      /\ (b.success = "true" => b.error = Absent)
      /\ (b.success # "true" => b.response = Absent) }

Bodies == {NotJson, Stopped, JsonList} \cup DictBodies

\* a JSON object that only carries an error message
ErrorBody == [kind |-> "dict", success |-> Absent, response |-> Absent, error |-> "msg"]

\* the responses a provider gives: a 200 with any of the bodies, another
\* status with text, a JSON array or a JSON error object, a 404 of a stopped
\* application
HttpResponses ==
  { r \in [status : Statuses, body : Bodies] :
      /\ r.body = Stopped => r.status = 404
      /\ r.status # 200 => r.body \in {NotJson, Stopped, JsonList, ErrorBody} }

NoResponse == [status |-> 0, body |-> NotJson]

\* what httpx raises from client.post / client.get
HttpErrors == {"TimeoutException", "RequestError", "Exception"}

\* dict.get(key): None when the key is absent
Get(v) == IF v = Absent THEN None ELSE v

\* response.json() succeeds
IsJson(body) == body.kind \in {"list", "dict"}

\* "app for invoked web endpoint is stopped" in response.text
SaysStopped(body) == body.kind = "stopped"

\* f"PROVIDER_HTTP_{status}"
ProviderHttp(status) ==
  CASE status = 200 -> "PROVIDER_HTTP_200"
    [] status = 303 -> "PROVIDER_HTTP_303"
    [] status = 404 -> "PROVIDER_HTTP_404"
    [] status = 500 -> "PROVIDER_HTTP_500"

NoFailure == [code |-> None, stage |-> None, transient |-> FALSE, http_status |-> 0]

\* HybridRouter._build_failure: code, stage, transient and, when given,
\* http_status (0 when the key is left out)
build_failure(code, stage, transient, http_status) ==
  [code |-> code, stage |-> stage, transient |-> transient, http_status |-> http_status]

\* a value a coroutine returns, or the exception it lets through
Ret(v) == [raised |-> FALSE, value |-> v]
Raise == [raised |-> TRUE, value |-> <<>>]

\* the dict a _run_*_inference method returns; isdict is FALSE for a JSON
\* array handed on as it was parsed
Result(success, response, error, error_code, failure) ==
  [isdict |-> TRUE, success |-> success, response |-> response, error |-> error,
   error_code |-> error_code, failure |-> failure]

ListResult == [isdict |-> FALSE, success |-> Absent, response |-> Absent,
               error |-> Absent, error_code |-> Absent, failure |-> NoFailure]


\* ---------------------------------------------------- binary64 arithmetic
\* Python floats are IEEE 754 doubles.  A positive double is m * 2^e with a
\* mantissa m of MantissaBits bits; m is kept as a little-endian sequence of
\* limbs of LimbBits bits, the empty sequence for zero.  Every operation
\* rounds to nearest, ties to even.  Subnormals, infinities and negative
\* numbers do not arise in the metrics update and are left out.
MantissaBits == 53
LimbBits == 14
Base == 16384

Limb(a, i) == IF i >= 1 /\ i <= Len(a) THEN a[i] ELSE 0

RECURSIVE Trim(_)
Trim(a) ==
  IF a = <<>> THEN a
  ELSE IF a[Len(a)] = 0 THEN Trim(SubSeq(a, 1, Len(a) - 1)) ELSE a

\* column sums to limbs
RECURSIVE Carry(_, _)
Carry(cols, c) ==
  IF cols = <<>>
  THEN (IF c = 0 THEN <<>> ELSE <<c % Base>> \o Carry(<<>>, c \div Base))
  ELSE <<(Head(cols) + c) % Base>> \o Carry(Tail(cols), (Head(cols) + c) \div Base)

AddNat(a, b) ==
  Trim(Carry([k \in 1..Max(Len(a), Len(b)) |-> Limb(a, k) + Limb(b, k)], 0))

RECURSIVE Column(_, _, _, _)
Column(a, b, k, i) ==
  IF i > Len(a) THEN 0 ELSE a[i] * Limb(b, k + 1 - i) + Column(a, b, k, i + 1)

MulNat(a, b) ==
  IF a = <<>> \/ b = <<>> THEN <<>>
  ELSE Trim(Carry([k \in 1..(Len(a) + Len(b) - 1) |-> Column(a, b, k, 1)], 0))

RECURSIVE Bits(_)
Bits(x) == IF x = 0 THEN 0 ELSE 1 + Bits(x \div 2)

BitLen(a) == IF a = <<>> THEN 0 ELSE (Len(a) - 1) * LimbBits + Bits(a[Len(a)])

\* a * 2^s
ShiftLeft(a, s) ==
  IF a = <<>> THEN a
  ELSE [k \in 1..(s \div LimbBits) |-> 0]
       \o Carry([k \in 1..Len(a) |-> a[k] * Pow2(s % LimbBits)], 0)

\* a \div 2^n
ShiftRight(a, n) ==
  LET q == n \div LimbBits
      b == n % LimbBits
      d == IF q >= Len(a) THEN <<>> ELSE SubSeq(a, q + 1, Len(a))
  IN Trim([k \in 1..Len(d) |->
             (d[k] \div Pow2(b)) + (Limb(d, k + 1) % Pow2(b)) * Pow2(LimbBits - b)])

Bit(a, i) == (Limb(a, (i \div LimbBits) + 1) \div Pow2(i % LimbBits)) % 2

\* some bit of a below position n is set
LowBits(a, n) ==
  \/ \E k \in 1..Min(n \div LimbBits, Len(a)) : a[k] # 0
  \/ Limb(a, (n \div LimbBits) + 1) % Pow2(n % LimbBits) # 0

\* a / 2^n rounded to nearest, ties to even (n >= 1)
RoundShift(a, n) ==
  LET q == ShiftRight(a, n)
      up == /\ Bit(a, n - 1) = 1
            /\ LowBits(a, n - 1) \/ Limb(q, 1) % 2 = 1
  IN IF up THEN AddNat(q, <<1>>) ELSE q

Zero == [m |-> <<>>, e |-> 0]

\* the double nearest to a * 2^e
Round(a, e) ==
  IF a = <<>> THEN Zero
  ELSE LET n == BitLen(a) - MantissaBits
       IN IF n <= 0 THEN [m |-> ShiftLeft(a, -n), e |-> e + n]
          ELSE LET r == RoundShift(a, n)
               IN IF BitLen(r) > MantissaBits
                  THEN [m |-> ShiftRight(r, 1), e |-> e + n + 1]
                  ELSE [m |-> r, e |-> e + n]

\* float(n) of a small positive integer
FromInt(n) == Round(Carry(<<n>>, 0), 0)

\* x * y
FMul(x, y) == Round(MulNat(x.m, y.m), x.e + y.e)

\* x + y
FAdd(x, y) ==
  IF x.m = <<>> THEN y
  ELSE IF y.m = <<>> THEN x
  ELSE LET e == Min(x.e, y.e)
       IN Round(AddNat(ShiftLeft(x.m, x.e - e), ShiftLeft(y.m, y.e - e)), e)

RECURSIVE LessNat(_, _, _)
LessNat(a, b, k) ==
  IF k = 0 THEN FALSE
  ELSE IF a[k] # b[k] THEN a[k] < b[k] ELSE LessNat(a, b, k - 1)

\* x < y
FLess(x, y) ==
  IF y.m = <<>> THEN FALSE
  ELSE IF x.m = <<>> THEN TRUE
  ELSE IF x.e # y.e THEN x.e < y.e
  ELSE LessNat(x.m, y.m, Len(x.m))

\* x <= y
FLeq(x, y) == x = y \/ FLess(x, y)

\* the next double above x
NextUp(x) == Round(AddNat(x.m, <<1>>), x.e)

\* the literals 0.9 (0x1.ccccccccccccdp-1), 0.1 (0x1.999999999999ap-4), 1.0
F09 == [m |-> <<3277, 13107, 3276, 1843>>, e |-> -53]
F01 == [m |-> <<6554, 9830, 6553, 1638>>, e |-> -56]
One == FromInt(1)

NoTiming == [inference_time |-> Zero, runs |-> 0]


\* ---------------------------------------------------- execution engine
\* time.time() - start_time of a call that reached a provider: one unit
Elapsed == 1

NoReply == [outcome |-> "none", success |-> FALSE, response |-> None, error |-> None,
            error_code |-> None, failure |-> NoFailure, provider_used |-> NoProvider,
            cost_estimate |-> 0]

\* InferenceResponse(...) handed to the caller of run_inference
InferenceResponse(success, response, error, error_code, failure, provider_used, cost) ==
  [outcome |-> "returned", success |-> success, response |-> response, error |-> error,
   error_code |-> error_code, failure |-> failure, provider_used |-> provider_used,
   cost_estimate |-> cost]

\* an exception that leaves run_inference
Propagated == [NoReply EXCEPT !.outcome = "raised"]

Idle == [pc |-> "idle", provider |-> NoProvider, attempt |-> 0,
         response |-> NoResponse, last_error |-> None, sleep |-> 0]

\* HybridRouter._run_golem_inference, from the response of client.post on
\* (lines 397-417); response.json() raises on a body that is not JSON
golem_result(resp) ==
  IF resp.status = 200
  THEN IF ~IsJson(resp.body) THEN Raise
       ELSE IF resp.body.kind = "list" THEN Ret(ListResult)
       ELSE Ret(Result(resp.body.success, resp.body.response, resp.body.error,
                       Absent, NoFailure))
  ELSE Ret(Result("false", Absent, "HTTP", ProviderHttp(resp.status),
                  build_failure(ProviderHttp(resp.status), "provider_execution",
                                resp.status >= 500, resp.status)))

\* _run_modal_inference that rejects a success with an empty response text
modal_result_rejects_empty(resp) ==
  IF resp = NoResponse
  THEN Ret(Result("false", Absent, "message", "MODAL_REQUEST_FAILED",
                  build_failure("MODAL_REQUEST_FAILED", "modal_request", TRUE, 0)))
  ELSE IF ~IsJson(resp.body)
  THEN Ret(Result("false", Absent, "message", "MODAL_RESPONSE_PARSE_ERROR",
                  build_failure("MODAL_RESPONSE_PARSE_ERROR", "response_parsing",
                                FALSE, resp.status)))
  ELSE IF resp.status = 200 /\ resp.body.kind = "dict"
  THEN LET success == Get(resp.body.success)
           resp_text == IF Get(resp.body.response) \in {None, ""}
                        THEN "" ELSE resp.body.response
           error_msg == Get(resp.body.error)
       IN IF success # "true"
          THEN Ret(Result("false", Absent, error_msg, "PROVIDER_EXECUTION_FAILED",
                          build_failure("PROVIDER_EXECUTION_FAILED",
                                        "provider_execution", TRUE, 0)))
          ELSE IF resp_text = ""
          THEN Ret(Result("false", Absent, "message", "EMPTY_MODEL_RESPONSE",
                          build_failure("EMPTY_MODEL_RESPONSE",
                                        "provider_execution", TRUE, 0)))
          ELSE Ret(Result("true", resp_text, error_msg, Absent, NoFailure))
  ELSE Ret(Result("false", Absent, "HTTP", ProviderHttp(resp.status),
                  build_failure(ProviderHttp(resp.status), "provider_execution",
                                resp.status >= 500, resp.status)))

\* HybridRouter._run_modal_inference after its attempt loop (lines 562-753);
\* resp is the local variable response, NoResponse for None
modal_result(resp) ==
  IF resp = NoResponse
  THEN Ret(Result("false", Absent, "message", "MODAL_REQUEST_FAILED",
                  build_failure("MODAL_REQUEST_FAILED", "modal_request", TRUE, 0)))
  ELSE IF ~IsJson(resp.body)
  THEN Ret(Result("false", Absent, "message", "MODAL_RESPONSE_PARSE_ERROR",
                  build_failure("MODAL_RESPONSE_PARSE_ERROR", "response_parsing",
                                FALSE, resp.status)))
  ELSE IF resp.status = 200 /\ resp.body.kind = "dict"
  THEN LET success == Get(resp.body.success)
           resp_text == IF Get(resp.body.response) \in {None, ""}
                        THEN "" ELSE resp.body.response
           error_msg == Get(resp.body.error)
       IN IF success # "true"
          THEN Ret(Result("false", Absent, error_msg, "PROVIDER_EXECUTION_FAILED",
                          build_failure("PROVIDER_EXECUTION_FAILED",
                                        "provider_execution", TRUE, 0)))
          ELSE Ret(Result("true", resp_text, error_msg, Absent, NoFailure))
  ELSE Ret(Result("false", Absent, "HTTP", ProviderHttp(resp.status),
                  build_failure(ProviderHttp(resp.status), "provider_execution",
                                resp.status >= 500, resp.status)))

\* the response of the if-not-provider branch of run_inference
unavailable ==
  InferenceResponse(FALSE, None, "message", "PROVIDER_UNAVAILABLE",
                    build_failure("PROVIDER_UNAVAILABLE", "provider_selection", TRUE, 0),
                    NoProvider, 0)

\* the response of the except branch of run_inference
internal_error(p) ==
  InferenceResponse(FALSE, None, "message", "ROUTER_INTERNAL_ERROR",
                    build_failure("ROUTER_INTERNAL_ERROR", "router_inference", TRUE, 0),
                    p, 0)

\* provider.avg_latency * 0.9 + inference_time * 0.1, inference_time > 0
ema_latency(avg) == 1

\* provider.success_rate * 0.9 + (0.1 if success else 0.0)
ema_success(rate, success) == IF rate = "1.0" /\ success THEN "1.0" ELSE "<1.0"

\* result["success"] raises on a JSON array and on an object without the key
HasSuccess(result) == result.isdict /\ result.success # Absent

\* run_inference with its try/except left out: the exception goes to the caller
Finish_no_except(p, o) ==
  /\ exec' = Idle
  /\ IF o.raised
     THEN providers' = providers /\ reply' = Propagated
     ELSE LET timed == [providers EXCEPT ![p].avg_latency = ema_latency(@)]
          IN IF ~HasSuccess(o.value)
             THEN providers' = timed /\ reply' = Propagated
             ELSE /\ providers' = [timed EXCEPT ![p].success_rate =
                                     ema_success(@, o.value.success = "true")]
                  /\ reply' = InferenceResponse(o.value.success = "true",
                                 Get(o.value.response), Get(o.value.error),
                                 Get(o.value.error_code), o.value.failure, p,
                                 Elapsed * providers[p].cost_per_second)

\* run_inference that marks the provider unhealthy when the execution failed
Finish_flips_health(p, o) ==
  /\ exec' = Idle
  /\ IF o.raised
     THEN /\ providers' = [providers EXCEPT ![p].healthy = FALSE]
          /\ reply' = internal_error(p)
     ELSE LET timed == [providers EXCEPT ![p].avg_latency = ema_latency(@)]
          IN IF ~HasSuccess(o.value)
             THEN /\ providers' = [timed EXCEPT ![p].healthy = FALSE]
                  /\ reply' = internal_error(p)
             ELSE /\ providers' = [timed EXCEPT ![p].success_rate =
                                     ema_success(@, o.value.success = "true"),
                                   ![p].healthy = @ /\ o.value.success = "true"]
                  /\ reply' = InferenceResponse(o.value.success = "true",
                                 Get(o.value.response), Get(o.value.error),
                                 Get(o.value.error_code), o.value.failure, p,
                                 Elapsed * providers[p].cost_per_second)

\* run_inference from the return of the _run_*_inference call on (lines
\* 336-384): o is what that call returned or raised.  avg_latency is written
\* before result["success"] is read.
Finish(p, o) ==
  /\ exec' = Idle
  /\ IF o.raised
     THEN providers' = providers /\ reply' = internal_error(p)
     ELSE LET timed == [providers EXCEPT ![p].avg_latency = ema_latency(@)]
          IN IF ~HasSuccess(o.value)
             THEN providers' = timed /\ reply' = internal_error(p)
             ELSE /\ providers' = [timed EXCEPT ![p].success_rate =
                                     ema_success(@, o.value.success = "true")]
                  /\ reply' = InferenceResponse(o.value.success = "true",
                                 Get(o.value.response), Get(o.value.error),
                                 Get(o.value.error_code), o.value.failure, p,
                                 Elapsed * providers[p].cost_per_second)

\* run_inference that falls back to another region when the requested one
\* has no healthy provider
run_inference_cross_region(req) ==
  /\ exec.pc = "idle"
  /\ request' = [region_preference |-> req.region_preference,
                 cost_priority |-> req.cost_priority, called |-> TRUE]
  /\ LET p == select_provider_fallback(providers, req)
     IN /\ selected' = p
        /\ IF p = NoProvider
           THEN /\ reply' = unavailable
                /\ http_calls' = 0
                /\ UNCHANGED <<exec, providers>>
           ELSE IF providers[p].type = "golem"
           THEN /\ exec' = [Idle EXCEPT !.pc = "golem_post", !.provider = p]
                /\ reply' = NoReply
                /\ http_calls' = 1
                /\ UNCHANGED providers
           ELSE IF providers[p].type = "modal"
           THEN /\ exec' = [Idle EXCEPT !.pc = "modal_post", !.provider = p]
                /\ reply' = NoReply
                /\ http_calls' = 1
                /\ UNCHANGED providers
           ELSE /\ http_calls' = 0
                /\ Finish(p, Raise)
  /\ UNCHANGED <<checker, probe>>
  /\ UNCHANGED <<qvars, timing>>

\* HybridRouter.run_inference up to its first await (lines 303-334): the
\* selection, the PROVIDER_UNAVAILABLE return, or the first client.post
run_inference(req) ==
  /\ exec.pc = "idle"
  /\ request' = [region_preference |-> req.region_preference,
                 cost_priority |-> req.cost_priority, called |-> TRUE]
  /\ LET p == select_provider(providers, req)
     IN /\ selected' = p
        /\ IF p = NoProvider
           THEN /\ reply' = unavailable
                /\ http_calls' = 0
                /\ UNCHANGED <<exec, providers>>
           ELSE IF providers[p].type = "golem"
           THEN /\ exec' = [Idle EXCEPT !.pc = "golem_post", !.provider = p]
                /\ reply' = NoReply
                /\ http_calls' = 1
                /\ UNCHANGED providers
           ELSE IF providers[p].type = "modal"
           THEN /\ exec' = [Idle EXCEPT !.pc = "modal_post", !.provider = p]
                /\ reply' = NoReply
                /\ http_calls' = 1
                /\ UNCHANGED providers
           ELSE /\ http_calls' = 0
                /\ Finish(p, Raise)
  /\ UNCHANGED <<checker, probe>>
  /\ UNCHANGED <<qvars, timing>>

\* httpx.AsyncClient(follow_redirects=False)
follow_redirects == FALSE

\* what the client does with a 303 when it follows redirects: it requests
\* the Location and the caller goes on waiting
FollowRedirect ==
  /\ http_calls' = http_calls + 1
  /\ UNCHANGED <<exec, providers, reply>>

\* client.post of _run_golem_inference returns
GolemResponds(resp) ==
  /\ exec.pc = "golem_post"
  /\ IF follow_redirects /\ resp.status = 303
     THEN FollowRedirect
     ELSE /\ Finish(exec.provider, golem_result(resp))
          /\ UNCHANGED http_calls
  /\ UNCHANGED <<request, selected, checker, probe>>
  /\ UNCHANGED <<qvars, timing>>

\* client.post of _run_golem_inference raises
GolemRaises(err) ==
  /\ exec.pc = "golem_post"
  /\ Finish(exec.provider, Raise)
  /\ UNCHANGED <<request, selected, http_calls, checker, probe>>
  /\ UNCHANGED <<qvars, timing>>

\* a backoff of 2 seconds whatever the attempt
Backoff_fixed(resp, err) ==
  /\ exec' = [exec EXCEPT !.pc = "modal_sleep", !.sleep = 2,
                          !.response = resp, !.last_error = err]
  /\ UNCHANGED <<providers, reply, http_calls>>

\* await asyncio.sleep(2 * (attempt + 1)) of the attempt loop is entered
\* (lines 502, 521, 538, 557), with the locals response and last_error as
\* the attempt left them
Backoff(resp, err) ==
  /\ exec' = [exec EXCEPT !.pc = "modal_sleep", !.sleep = 2 * (exec.attempt + 1),
                          !.response = resp, !.last_error = err]
  /\ UNCHANGED <<providers, reply, http_calls>>

\* continue: the next round of range(3) and its client.post
NextAttempt ==
  /\ exec' = [exec EXCEPT !.pc = "modal_post", !.attempt = @ + 1, !.sleep = 0]
  /\ http_calls' = http_calls + 1
  /\ UNCHANGED <<providers, reply>>

\* the attempt loop is left, by break or after its third round, and the
\* code after it classifies what the local response holds (lines 562-753)
LeaveLoop(resp) ==
  /\ Finish(exec.provider, modal_result(resp))
  /\ UNCHANGED http_calls

\* client.post of _run_modal_inference returns, with a 303 retried like a
\* failed request
ModalResponds_retry_303(resp) ==
  /\ exec.pc = "modal_post"
  /\ IF resp.status = 303 \/ (resp.status = 404 /\ SaysStopped(resp.body))
     THEN Backoff(resp, exec.last_error)
     ELSE LeaveLoop(resp)
  /\ UNCHANGED <<request, selected, checker, probe>>
  /\ UNCHANGED <<qvars, timing>>

\* client.post returns and a body that is not JSON is retried like a
\* stopped application
ModalResponds_retry_unparsed(resp) ==
  /\ exec.pc = "modal_post"
  /\ IF resp.status = 303
     THEN LeaveLoop(resp)
     ELSE IF (resp.status = 404 /\ SaysStopped(resp.body)) \/ ~IsJson(resp.body)
     THEN Backoff(resp, exec.last_error)
     ELSE LeaveLoop(resp)
  /\ UNCHANGED <<request, selected, checker, probe>>
  /\ UNCHANGED <<qvars, timing>>

\* client.post of _run_modal_inference returns (lines 463-506)
ModalResponds(resp) ==
  /\ exec.pc = "modal_post"
  /\ IF follow_redirects /\ resp.status = 303
     THEN FollowRedirect
     ELSE IF resp.status = 303
     THEN LeaveLoop(resp)
     ELSE IF resp.status = 404 /\ SaysStopped(resp.body)
     THEN Backoff(resp, exec.last_error)
     ELSE LeaveLoop(resp)
  /\ UNCHANGED <<request, selected, checker, probe>>
  /\ UNCHANGED <<qvars, timing>>

\* client.post raises and the engine backs off after the last attempt too
ModalRaises_sleeps_last(err) ==
  /\ exec.pc = "modal_post"
  /\ Backoff(exec.response, err)
  /\ UNCHANGED <<request, selected, checker, probe>>
  /\ UNCHANGED <<qvars, timing>>

\* client.post of _run_modal_inference raises (lines 508-560); the local
\* variable response keeps what an earlier attempt assigned
ModalRaises(err) ==
  /\ exec.pc = "modal_post"
  /\ IF exec.attempt < 2
     THEN Backoff(exec.response, err)
     ELSE LeaveLoop(exec.response)
  /\ UNCHANGED <<request, selected, checker, probe>>
  /\ UNCHANGED <<qvars, timing>>

\* asyncio.sleep of the attempt loop returns: continue, then the next
\* client.post, or range(3) is exhausted and the code after the loop runs
\* (lines 456, 502-503, 562)
SleepDone ==
  /\ exec.pc = "modal_sleep"
  /\ IF exec.attempt < 2
     THEN NextAttempt
     ELSE LeaveLoop(exec.response)
  /\ UNCHANGED <<request, selected, checker, probe>>
  /\ UNCHANGED <<qvars, timing>>

\* no call in progress
InitCalls ==
  /\ request = NoRequest
  /\ selected = NoProvider
  /\ exec = Idle
  /\ reply = NoReply
  /\ http_calls = 0
  /\ checker = "idle"
  /\ probe = [i \in ProviderIds |-> "idle"]

InitIdle ==
  /\ InitCalls
  /\ timing = NoTiming

\* the registry when requests arrive: built by setup_providers, the health
\* fields as earlier probes left them
InitExec ==
  /\ InitQueues
  /\ InitIdle
  /\ \E golem \in [1..NumGolem -> GolemRegions], h \in [ProviderIds -> BOOLEAN] :
       providers = [i \in ProviderIds |->
                      [setup_providers(golem)[i] EXCEPT
                         !.healthy = h[i],
                         !.last_health_check = IF h[i] THEN 0 ELSE Earlier]]

\* the requests run_inference is given: unlocked or locked to eu-west, with
\* either priority
ExecRequests == {req \in Requests : req.region_preference \in {"None", "eu-west"}}

NextExec ==
  \/ \E req \in ExecRequests : run_inference(req)
  \/ \E resp \in HttpResponses : GolemResponds(resp)
  \/ \E err \in HttpErrors : GolemRaises(err)
  \/ \E resp \in HttpResponses : ModalResponds(resp)
  \/ \E err \in HttpErrors : ModalRaises(err)
  \/ SleepDone

ExecSpec == InitExec /\ [][NextExec]_vars

\* ------------------------------------------------------- health checker
\* health_check_providers that returns as soon as one probe has settled
GatherReturns_any ==
  /\ checker = "gather"
  /\ \E i \in ProviderIds : probe[i] = "settled"
  /\ checker' = "idle"
  /\ probe' = [i \in ProviderIds |-> "idle"]
  /\ UNCHANGED <<providers, request, selected, exec, reply, http_calls>>
  /\ UNCHANGED <<qvars, timing>>

\* HybridRouter.health_check_providers up to its await: one
\* _check_provider_health coroutine per provider, all handed to
\* asyncio.gather, which makes a task of each
health_check_providers ==
  /\ checker = "idle"
  /\ checker' = "gather"
  /\ probe' = [i \in ProviderIds |-> "created"]
  /\ providers' = [i \in ProviderIds |->
                     [providers[i] EXCEPT !.last_health_check = Age(@)]]
  /\ UNCHANGED <<request, selected, exec, reply, http_calls>>
  /\ UNCHANGED <<qvars, timing>>

\* _check_provider_health up to its await: client.get or client.post is
\* issued (lines 183-205)
ProbeStart(i) ==
  /\ probe[i] = "created"
  /\ probe' = [probe EXCEPT ![i] = "awaiting"]
  /\ UNCHANGED <<providers, checker, request, selected, exec, reply, http_calls>>
  /\ UNCHANGED <<qvars, timing>>

\* the event loop runs every task that is ready before it looks at the
\* sockets: no HTTP call ends while a probe task has not had its first run
ProbesReady == \E j \in ProviderIds : probe[j] = "created"

\* data.get("success", False) of the Modal probe
has_success(body) == body.success = "true"

\* the HTTP call of a probe returns (lines 188, 206-214, 228)
ProbeResponds(i, resp) ==
  /\ probe[i] = "awaiting"
  /\ ~ProbesReady
  /\ probe' = [probe EXCEPT ![i] = "settled"]
  /\ LET h == IF providers[i].type = "golem" THEN resp.status = 200
              ELSE /\ resp.status = 200
                   /\ resp.body.kind = "dict"
                   /\ has_success(resp.body)
     IN providers' = [providers EXCEPT ![i].healthy = h,
                                      ![i].last_health_check = Latest]
  /\ UNCHANGED <<checker, request, selected, exec, reply, http_calls>>
  /\ UNCHANGED <<qvars, timing>>

\* the HTTP call of a probe raises: the Modal probe catches it inside and
\* goes on to line 228, the Golem probe leaves through the outer except
\* (lines 215-220, 230-232)
ProbeRaises(i, err) ==
  /\ probe[i] = "awaiting"
  /\ ~ProbesReady
  /\ probe' = [probe EXCEPT ![i] = "settled"]
  /\ providers' = IF providers[i].type = "golem"
                  THEN [providers EXCEPT ![i].healthy = FALSE]
                  ELSE [providers EXCEPT ![i].healthy = FALSE,
                                         ![i].last_health_check = Latest]
  /\ UNCHANGED <<checker, request, selected, exec, reply, http_calls>>
  /\ UNCHANGED <<qvars, timing>>

\* asyncio.gather(*tasks, return_exceptions=True) returns and
\* health_check_providers with it
GatherReturns ==
  /\ checker = "gather"
  /\ \A i \in ProviderIds : probe[i] = "settled"
  /\ checker' = "idle"
  /\ probe' = [i \in ProviderIds |-> "idle"]
  /\ UNCHANGED <<providers, request, selected, exec, reply, http_calls>>
  /\ UNCHANGED <<qvars, timing>>

\* the registry after construction
InitHealth ==
  /\ InitQueues
  /\ InitIdle
  /\ \E golem \in [1..NumGolem -> GolemRegions] : providers = setup_providers(golem)

NextHealth ==
  \/ health_check_providers
  \/ \E i \in ProviderIds : ProbeStart(i)
  \/ \E i \in ProviderIds, resp \in HttpResponses : ProbeResponds(i, resp)
  \/ \E i \in ProviderIds, err \in HttpErrors : ProbeRaises(i, err)
  \/ GatherReturns

\* a step of the running health check: a probe's first run, the end of its
\* HTTP call, the return of gather
CheckStep ==
  \/ \E i \in ProviderIds : ProbeStart(i)
  \/ \E i \in ProviderIds, resp \in HttpResponses : ProbeResponds(i, resp)
  \/ \E i \in ProviderIds, err \in HttpErrors : ProbeRaises(i, err)
  \/ GatherReturns

\* every HTTP call of a probe ends: the client has a timeout on each (5 s on
\* the Golem GET, the client's 600 s read timeout on the Modal POST)
HealthSpec == InitHealth /\ [][NextHealth]_vars /\ WF_vars(CheckStep)

\* ------------------------------------------------------ selector, whole
InitRouter ==
  /\ InitQueues
  /\ providers \in [ProviderIds -> ProviderChoices]
  /\ InitIdle

NextRouter == \E req \in Requests : Select(req)

RouterSpec == InitRouter /\ [][NextRouter]_vars

\* ------------------------------------------------- queue manager, whole
Init ==
  /\ InitQueues
  /\ providers = <<>>
  /\ InitIdle

Next ==
  \/ \E region \in RegionInputs : enqueue_job(region)
  \/ \E R \in RetryInputs : enqueue_retry(R)
  \/ start_workers
  \/ \E r \in Regions, k \in Slots : Dequeue(r, k)
  \/ \E r \in Regions, k \in Slots : Wake(r, k)
  \/ \E r \in Regions, k \in Slots, res \in Results :
        InferenceReturns(r, k, res)
  \/ \E r \in Regions, k \in Slots : InferenceRaises(r, k)
  \/ \E r \in Regions, k \in Slots : BackoffDone(r, k)
  \/ \E r \in Regions, k \in Slots : PauseDone(r, k)

Spec == Init /\ [][Next]_vars

\* one step of some process_queue task: a lane check, a resumed get(), the
\* end of an inference call (assumed to return or raise), of a backoff sleep
\* or of a pause
WorkerStep ==
  \E r \in Regions, k \in Slots :
    \/ Dequeue(r, k)
    \/ Wake(r, k)
    \/ InferenceRaises(r, k)
    \/ \E res \in Results : InferenceReturns(r, k, res)
    \/ BackoffDone(r, k)
    \/ PauseDone(r, k)

\* the event loop does not stop while a worker task can take a step
Fairness == WF_vars(WorkerStep)

\* the first call of start_workers; a later call changes nothing but the
\* count of calls, and the runs of LiveSpec leave it out
start_workers_first == start_calls = 0 /\ start_workers

NextLive ==
  \/ \E region \in RegionInputs : enqueue_job(region)
  \/ \E R \in RetryInputs : enqueue_retry(R)
  \/ start_workers_first
  \/ \E r \in Regions, k \in Slots : Dequeue(r, k)
  \/ \E r \in Regions, k \in Slots : Wake(r, k)
  \/ \E r \in Regions, k \in Slots, res \in Results :
        InferenceReturns(r, k, res)
  \/ \E r \in Regions, k \in Slots : InferenceRaises(r, k)
  \/ \E r \in Regions, k \in Slots : BackoffDone(r, k)
  \/ \E r \in Regions, k \in Slots : PauseDone(r, k)

LiveSpec == Init /\ [][NextLive]_vars /\ Fairness

\* ------------------------------------------------- application, whole
\* region_preference values sent to POST /inference/queued: none, a queue
\* region in lower case, a provider region
QueuedPrefs == {"None", "eu", "eu-west"}

\* use_queue: bool = Query(default=True)
use_queue == TRUE

\* POST /inference/queued (api/inference.py 115-162): with use_queue true,
\* region = region_preference or "US", then enqueue_job; the job_id is
\* returned when enqueue_job has not raised
inference_queued(pref) ==
  LET region == IF Truthy(pref) THEN pref ELSE "US"
  IN /\ use_queue
     /\ enqueue_job(region)

\* what the application runs: lifespan starts a health check in the
\* background and leaves start_workers out (main.py 64-74), the inference
\* endpoints start further health checks, the queued endpoint enqueues.  No
\* code of the application calls start_workers, so no process_queue task
\* exists.
NextApp ==
  \/ \E pref \in QueuedPrefs : inference_queued(pref)
  \/ health_check_providers
  \/ \E i \in ProviderIds : ProbeStart(i)
  \/ \E i \in ProviderIds, resp \in HttpResponses : ProbeResponds(i, resp)
  \/ \E i \in ProviderIds, err \in HttpErrors : ProbeRaises(i, err)
  \/ GatherReturns

\* the event loop runs every worker task and every probe that can take a step
AppSpec == InitHealth /\ [][NextApp]_vars /\ WF_vars(WorkerStep) /\ WF_vars(CheckStep)

\* ---------------------------------------------------- metrics, whole
\* the latency every execution of a run of MetricsSpec takes, in seconds
Latencies == {FromInt(1), FromInt(21)}

\* the registry entry of the provider under measurement, as the Provider
\* dataclass starts it: avg_latency 0, success_rate 1.0
InitMetrics ==
  /\ InitQueues
  /\ InitCalls
  /\ providers = <<[avg_latency |-> Zero, success_rate |-> One]>>
  /\ \E L \in Latencies : timing = [inference_time |-> L, runs |-> 0]

\* the metrics update without the decay of the old value
update_metrics_no_decay(success) ==
  /\ timing.runs < MaxRuns \/ success
  /\ providers' = [providers EXCEPT
       ![1].avg_latency = FAdd(@, FMul(timing.inference_time, F01)),
       ![1].success_rate = FAdd(@, IF success THEN F01 ELSE Zero)]
  /\ timing' = [timing EXCEPT !.runs = Min(@ + 1, MaxRuns)]
  /\ UNCHANGED <<request, selected, exec, reply, http_calls, checker, probe>>
  /\ UNCHANGED qvars

\* run_inference, lines 340-341, for an execution that took
\* timing.inference_time and whose result has success true or false.  The
\* first MaxRuns executions end either way, the later ones succeed.
update_metrics(success) ==
  /\ timing.runs < MaxRuns \/ success
  /\ providers' = [providers EXCEPT
       ![1].avg_latency = FAdd(FMul(@, F09), FMul(timing.inference_time, F01)),
       ![1].success_rate = FAdd(FMul(@, F09), IF success THEN F01 ELSE Zero)]
  /\ timing' = [timing EXCEPT !.runs = Min(@ + 1, MaxRuns)]
  /\ UNCHANGED <<request, selected, exec, reply, http_calls, checker, probe>>
  /\ UNCHANGED qvars

NextMetrics == \E success \in BOOLEAN : update_metrics(success)

MetricsSpec == InitMetrics /\ [][NextMetrics]_vars

\* ------------------------------------- health checks that overlap, whole
\* health_check_providers has several callers and no lock: the task lifespan
\* creates at startup (main.py 66), the background task of every inference
\* request (api/inference.py 66, 110) and the debug operation.  Here checker
\* and probe are kept per caller; of each caller one call is in progress at
\* a time.  checker.latest is the caller whose call started most recently,
\* and a settled probe keeps the value it wrote to healthy.
Callers == {"lifespan", "inference"}

NoProbe == [pc |-> "idle", healthy |-> FALSE]

\* health_check_providers called by caller c while calls of other callers
\* may be waiting in their gather
health_check_requested(c) ==
  /\ checker.pc[c] = "idle"
  /\ checker' = [pc |-> [checker.pc EXCEPT ![c] = "gather"], latest |-> c]
  /\ probe' = [probe EXCEPT ![c] = [i \in ProviderIds |-> [NoProbe EXCEPT !.pc = "created"]]]
  /\ providers' = [i \in ProviderIds |->
                     [providers[i] EXCEPT !.last_health_check = Age(@)]]
  /\ UNCHANGED <<request, selected, exec, reply, http_calls>>
  /\ UNCHANGED <<qvars, timing>>

\* _check_provider_health of caller c's call up to its await (lines 183-205)
CallerProbeStart(c, i) ==
  /\ probe[c][i].pc = "created"
  /\ probe' = [probe EXCEPT ![c][i].pc = "awaiting"]
  /\ UNCHANGED <<providers, checker, request, selected, exec, reply, http_calls>>
  /\ UNCHANGED <<qvars, timing>>

\* no HTTP call ends while a probe task of any call has not had its first run
CallerProbesReady == \E c \in Callers, j \in ProviderIds : probe[c][j].pc = "created"

\* the HTTP call of a probe of caller c's call returns (lines 188, 206-214, 228)
CallerProbeResponds(c, i, resp) ==
  /\ probe[c][i].pc = "awaiting"
  /\ ~CallerProbesReady
  /\ LET h == IF providers[i].type = "golem" THEN resp.status = 200
              ELSE /\ resp.status = 200
                   /\ resp.body.kind = "dict"
                   /\ has_success(resp.body)
     IN /\ providers' = [providers EXCEPT ![i].healthy = h,
                                         ![i].last_health_check = Latest]
        /\ probe' = [probe EXCEPT ![c][i] = [pc |-> "settled", healthy |-> h]]
  /\ UNCHANGED <<checker, request, selected, exec, reply, http_calls>>
  /\ UNCHANGED <<qvars, timing>>

\* the HTTP call of a probe of caller c's call raises (lines 215-220, 230-232)
CallerProbeRaises(c, i, err) ==
  /\ probe[c][i].pc = "awaiting"
  /\ ~CallerProbesReady
  /\ probe' = [probe EXCEPT ![c][i] = [pc |-> "settled", healthy |-> FALSE]]
  /\ providers' = IF providers[i].type = "golem"
                  THEN [providers EXCEPT ![i].healthy = FALSE]
                  ELSE [providers EXCEPT ![i].healthy = FALSE,
                                         ![i].last_health_check = Latest]
  /\ UNCHANGED <<checker, request, selected, exec, reply, http_calls>>
  /\ UNCHANGED <<qvars, timing>>

\* asyncio.gather of caller c's call returns, and the call with it
CallerGatherReturns(c) ==
  /\ checker.pc[c] = "gather"
  /\ \A i \in ProviderIds : probe[c][i].pc = "settled"
  /\ checker' = [checker EXCEPT !.pc[c] = "idle"]
  /\ probe' = [probe EXCEPT ![c] = [i \in ProviderIds |-> NoProbe]]
  /\ UNCHANGED <<providers, request, selected, exec, reply, http_calls>>
  /\ UNCHANGED <<qvars, timing>>

\* the registry after construction, no health check called yet
InitOverlap ==
  /\ InitQueues
  /\ request = NoRequest
  /\ selected = NoProvider
  /\ exec = Idle
  /\ reply = NoReply
  /\ http_calls = 0
  /\ timing = NoTiming
  /\ checker = [pc |-> [c \in Callers |-> "idle"], latest |-> "lifespan"]
  /\ probe = [c \in Callers |-> [i \in ProviderIds |-> NoProbe]]
  /\ \E golem \in [1..NumGolem -> GolemRegions] : providers = setup_providers(golem)

NextOverlap ==
  \/ \E c \in Callers : health_check_requested(c)
  \/ \E c \in Callers, i \in ProviderIds : CallerProbeStart(c, i)
  \/ \E c \in Callers, i \in ProviderIds, resp \in HttpResponses :
        CallerProbeResponds(c, i, resp)
  \/ \E c \in Callers, i \in ProviderIds, err \in HttpErrors :
        CallerProbeRaises(c, i, err)
  \/ \E c \in Callers : CallerGatherReturns(c)

OverlapSpec == InitOverlap /\ [][NextOverlap]_vars

\* ------------------------------------ concurrent executions, whole
\* run_inference calls that overlap on one provider: every /inference
\* request is a task of its own on the event loop.  Here exec is kept per
\* call, and timing.done lists the provider calls that returned, in the
\* order in which they returned: the time each took and the success key of
\* its result.  Of the response handed to the caller, reply keeps the outcome.
InferenceCalls == {"first", "second"}

\* result["success"] of a returned result: true, false, or no such key
SuccessKeys == {"true", "false", Absent}

\* run_inference up to its await of the provider call (lines 303-330)
begin_inference(x) ==
  /\ exec[x] = "idle"
  /\ Len(timing.done) < MaxRuns
  /\ exec' = [exec EXCEPT ![x] = "awaiting"]
  /\ UNCHANGED <<providers, timing, request, selected, reply, http_calls, checker, probe>>
  /\ UNCHANGED qvars

\* the provider call of run_inference returns a result after elapsed
\* seconds (lines 336-341): avg_latency is written, then result["success"]
\* is read, which raises when the result has no such key
provider_returns(x, elapsed, success) ==
  /\ exec[x] = "awaiting"
  /\ exec' = [exec EXCEPT ![x] = "idle"]
  /\ timing' = [timing EXCEPT !.done = Append(@, [inference_time |-> elapsed,
                                                   success |-> success])]
  /\ providers' = [providers EXCEPT
       ![1].avg_latency = FAdd(FMul(@, F09), FMul(elapsed, F01)),
       ![1].success_rate = IF success = Absent THEN @
                           ELSE FAdd(FMul(@, F09),
                                     IF success = "true" THEN F01 ELSE Zero)]
  /\ reply' = IF success = Absent THEN internal_error(1)
              ELSE [NoReply EXCEPT !.outcome = "returned",
                                   !.success = (success = "true"),
                                   !.provider_used = 1]
  /\ UNCHANGED <<request, selected, http_calls, checker, probe>>
  /\ UNCHANGED qvars

\* the provider call raises: the except branch of run_inference (361-384)
provider_raises(x) ==
  /\ exec[x] = "awaiting"
  /\ exec' = [exec EXCEPT ![x] = "idle"]
  /\ reply' = internal_error(1)
  /\ UNCHANGED <<providers, timing, request, selected, http_calls, checker, probe>>
  /\ UNCHANGED qvars

InitConcurrent ==
  /\ InitQueues
  /\ request = NoRequest
  /\ selected = NoProvider
  /\ reply = NoReply
  /\ http_calls = 0
  /\ checker = "idle"
  /\ probe = [i \in ProviderIds |-> "idle"]
  /\ exec = [x \in InferenceCalls |-> "idle"]
  /\ providers = <<[avg_latency |-> Zero, success_rate |-> One]>>
  /\ timing = [done |-> <<>>]

NextConcurrent ==
  \/ \E x \in InferenceCalls : begin_inference(x)
  \/ \E x \in InferenceCalls, elapsed \in Latencies, success \in SuccessKeys :
        provider_returns(x, elapsed, success)
  \/ \E x \in InferenceCalls : provider_raises(x)

ConcurrentSpec == InitConcurrent /\ [][NextConcurrent]_vars

\* ------------------------------------------------------------ properties
Count(j, s) == Cardinality({i \in 1..Len(s) : s[i] = j})
InLane(j, s) == \E i \in 1..Len(s) : s[i] = j
InRegionLane(j) == \E r \in Regions : InLane(j, queue[r]) \/ InLane(j, retry_queue[r])
InAnyLane(j) == InRegionLane(j) \/ InLane(j, global_retry_queue)
IsCurrent(j) == \E r \in Regions : current_job[r] = j
Sum3(f) == f["US"] + f["EU"] + f["ASIA"]
TaskOf(r) == {k \in Slots : worker[r][k].pc # "none"}
InFlight(r) == {k \in Slots : worker[r][k].pc = "inference"}

\* C1: a failed attempt that leaves retry_count below max_retries sends the
\* job through the backoff to the tail of the global retry queue and never to
\* a region's lane; the failed attempt that brings retry_count to max_retries
\* stamps completed_at, adds one to failed_count and leaves the job in no lane.
C1_RetryEscalation ==
  /\ [](\A j \in Jobs :
          /\ job[j].retry_count >= 1 => ~InRegionLane(j)
          /\ job[j].retry_count >= max_retries => ~InAnyLane(j) /\ job[j].completed_at)
  /\ [][\A j \in Jobs :
          job'[j].retry_count # job[j].retry_count =>
            IF job'[j].retry_count < max_retries
            THEN /\ job'[j].retry_count \in {1, 2}
                 /\ ~job'[j].completed_at
                 /\ \E r \in Regions, k \in Slots :
                       worker'[r][k] = [pc |-> "backoff", job |-> j,
                                        sleep |-> BackoffSeconds(job'[j].retry_count)]
                 /\ global_retry_queue' = global_retry_queue
                 /\ retry_queue' = retry_queue
                 /\ failed_count' = failed_count
            ELSE /\ job'[j].completed_at
                 /\ Sum3(failed_count') = Sum3(failed_count) + 1
                 /\ global_retry_queue' = global_retry_queue
                 /\ retry_queue' = retry_queue /\ queue' = queue]_vars
  /\ [][\A r \in Regions, k \in Slots :
          worker[r][k].pc = "backoff" /\ worker'[r][k].pc # "backoff" =>
            /\ global_retry_queue' = Append(global_retry_queue, worker[r][k].job)
            /\ retry_queue' = retry_queue /\ queue' = queue]_vars

C1_Witness ==
  \E j \in Jobs : job[j].retry_count = max_retries /\ terminal[j] = "failed"
                  /\ attempts[j] = 3

\* C2: a job whose every attempt fails (by a raised exception or by a result
\* with success = false) ends after exactly max_retries attempts, as failed.
C2_ThreeAttempts ==
  [][\A r \in Regions, k \in Slots :
       LET j == worker[r][k].job
       IN (InferenceRaises(r, k) \/ InferenceReturns(r, k, "failure_result"))
          /\ job'[j].completed_at
          => attempts'[j] = max_retries /\ terminal'[j] = "failed"
             /\ Sum3(failed_count') = Sum3(failed_count) + 1]_vars

\* C3: a worker that starts a job while the global retry queue is non-empty
\* takes the head of the global retry queue; with the global retry queue
\* empty and its region's retry queue non-empty it takes that queue's head.
C3_DequeuePriority ==
  [][\A r \in Regions, k \in Slots :
       worker[r][k].pc # "inference" /\ worker'[r][k].pc = "inference" =>
         /\ global_retry_queue # <<>> =>
              worker'[r][k].job = Head(global_retry_queue)
         /\ global_retry_queue = <<>> /\ retry_queue[r] # <<>> =>
              worker'[r][k].job = Head(retry_queue[r])]_vars

\* C4: an inference call that returns a result with success = false counts as
\* a failed attempt: retry_count goes up and completed_count does not.
C4_FailureResultRetried ==
  [][\A r \in Regions, k \in Slots :
       InferenceReturns(r, k, "failure_result") =>
         /\ job'[worker[r][k].job].retry_count = job[worker[r][k].job].retry_count + 1
         /\ completed_count' = completed_count]_vars

\* the state of a job as the queue manager's own state shows it
Status(j) ==
  IF ~job[j].accepted THEN "none"
  ELSE IF job[j].completed_at
       THEN (IF job[j].retry_count >= max_retries THEN "failed" ELSE "completed")
  ELSE IF IsCurrent(j) THEN "processing"
  ELSE IF InLane(j, global_retry_queue) THEN "queued_for_retry"
  ELSE "queued"

Transitions ==
  { <<"none", "queued">>, <<"queued", "processing">>,
    <<"processing", "completed">>, <<"processing", "queued_for_retry">>,
    <<"queued_for_retry", "processing">>, <<"processing", "failed">> }

\* every job accepted by enqueue_job so far has ended, or no worker runs yet
AcceptedJobsEnded ==
  workers_started =>
    \A j \in Jobs : job[j].accepted /\ ~job[j].is_retry =>
                      Status(j) \in {"completed", "failed"}

\* C5: once the workers are started every job accepted by enqueue_job
\* eventually has completed_at stamped (completed or failed): whatever has
\* been accepted, a state follows in which all of it has ended; and a job
\* only moves queued -> processing -> completed | queued_for_retry | failed
\* and queued_for_retry -> processing.
C5_JobLifecycle ==
  /\ [][\A j \in Jobs :
          Status(j)' # Status(j) => <<Status(j), Status(j)'>> \in Transitions]_vars
  /\ []<>AcceptedJobsEnded

C5_Witness ==
  \E j \in Jobs : /\ job[j].accepted /\ ~job[j].is_retry
                  /\ Status(j) = "completed" /\ job[j].retry_count = 2

Places(j) ==
  Count(j, global_retry_queue)
  + Count(j, queue["US"]) + Count(j, queue["EU"]) + Count(j, queue["ASIA"])
  + Count(j, retry_queue["US"]) + Count(j, retry_queue["EU"])
  + Count(j, retry_queue["ASIA"])
  + Cardinality({r \in Regions : current_job[r] = j})

\* C6: every accepted job that is not terminal is held in exactly one place
\* (one lane or one region's current_job slot), and no job is ever held in
\* two places.
C6_SingleOwner ==
  \A j \in Jobs :
    /\ Places(j) <= 1
    /\ job[j].accepted /\ ~job[j].completed_at => Places(j) = 1

C6_Witness ==
  /\ \E j \in Jobs : InLane(j, global_retry_queue)
  /\ \E j \in Jobs : IsCurrent(j) /\ job[j].retry_count = 1

\* C7 as stated: current_job is set, and processing true, only while the
\* region's worker is awaiting the inference call for that job.
C7_CurrentJobOnlyInInference ==
  \A r \in Regions :
    /\ processing[r] <=> current_job[r] # NoJob
    /\ current_job[r] # NoJob =>
         \E k \in Slots : worker[r][k] = [pc |-> "inference", job |-> current_job[r],
                                          sleep |-> 0]

\* C7 as amended: current_job is set, and processing true, exactly while the
\* region's worker is awaiting the inference call for that job or sleeping in
\* the retry backoff for it; it is null while the worker waits for work and
\* during the pause after a worker error.
C7_CurrentJobInferenceOrBackoff ==
  \A r \in Regions :
    /\ processing[r] <=> current_job[r] # NoJob
    /\ current_job[r] # NoJob <=>
         \E k \in Slots : /\ worker[r][k].pc \in {"inference", "backoff"}
                          /\ worker[r][k].job = current_job[r]
    /\ \A k \in Slots :
         worker[r][k].pc \in {"waiting", "pause", "top", "created"} =>
            current_job[r] = NoJob /\ ~processing[r]

C7_Witness ==
  \E r \in Regions, k \in Slots :
    /\ worker[r][k].pc = "backoff" /\ current_job[r] = worker[r][k].job
    /\ \E q \in Regions, m \in Slots : worker[q][m].pc = "pause"

\* C8: start_workers creates one process_queue task per region on its first
\* call and none on a later call, so a region never has two inference calls
\* in flight and the system never more than three.
C8_OneWorkerPerRegion ==
  /\ [](\A r \in Regions :
          /\ Cardinality(TaskOf(r)) = (IF workers_started THEN 1 ELSE 0)
          /\ Cardinality(InFlight(r)) <= 1)
  /\ [](Cardinality(InFlight("US")) + Cardinality(InFlight("EU"))
          + Cardinality(InFlight("ASIA")) <= 3)
  /\ [][/\ start_calls = 0 /\ start_calls' # start_calls =>
             \A r \in Regions : Cardinality(TaskOf(r)') = 1
        /\ workers_started => \A r \in Regions : TaskOf(r)' = TaskOf(r)]_vars

C8_Witness ==
  /\ start_calls = 2
  /\ \E r \in Regions, q \in Regions :
        r # q /\ InFlight(r) # {} /\ InFlight(q) # {}

HealthyIn(region) == {i \in ProviderIds : providers[i].healthy /\ providers[i].region = region}

Candidates ==
  {i \in ProviderIds :
     /\ providers[i].healthy
     /\ Truthy(request.region_preference) =>
          providers[i].region = request.region_preference}

WithCapacity == {i \in Candidates : providers[i].max_concurrent > 0}

Eligible == IF WithCapacity # {} THEN WithCapacity ELSE Candidates

RankKey(i) ==
  IF request.cost_priority
  THEN <<providers[i].cost_per_second, providers[i].avg_latency>>
  ELSE <<providers[i].avg_latency, providers[i].cost_per_second>>

\* i is ranked ahead of j: lower key, or the same key and earlier in the registry
Ahead(i, j) == TupleLess(RankKey(i), RankKey(j)) \/ (RankKey(i) = RankKey(j) /\ i < j)

\* C10: the selector returns the candidate (healthy, of the requested region
\* when one is set) with the lowest (cost, latency) key under cost_priority
\* and the lowest (latency, cost) key otherwise, among those with
\* max_concurrent > 0 when there is one and among all candidates when there
\* is none, equal keys going to the earlier registry entry.
C10_RankedSelection ==
  request.called =>
    IF Candidates = {} THEN selected = NoProvider
    ELSE /\ selected \in Eligible
         /\ \A j \in Eligible \ {selected} : Ahead(selected, j)

C10_Witness ==
  /\ request.called /\ ~request.cost_priority
  /\ selected # NoProvider
  /\ providers[selected].max_concurrent > 0
  /\ \E j \in Candidates : providers[j].max_concurrent = 0 /\ Ahead(j, selected)
  /\ \E j \in Eligible \ {selected} :
        providers[j].cost_per_second < providers[selected].cost_per_second

\* ------------------------------------------- execution engine properties
\* the providers' health fields
HealthFields == [i \in ProviderIds |->
                   <<providers[i].healthy, providers[i].last_health_check>>]

\* the response C11 describes
IsUnavailable(r) ==
  /\ r.outcome = "returned"
  /\ r.success = FALSE
  /\ r.error_code = "PROVIDER_UNAVAILABLE"
  /\ r.failure.code = "PROVIDER_UNAVAILABLE"
  /\ r.failure.stage = "provider_selection"
  /\ r.provider_used = NoProvider
  /\ r.cost_estimate = 0

\* no healthy provider at all, or a region asked for that has none
NoneToSelect(req) ==
  \/ \A i \in ProviderIds : ~providers[i].healthy
  \/ Truthy(req.region_preference) /\ HealthyIn(req.region_preference) = {}

C12_NeverRaises ==
  /\ reply.outcome # "raised"
  /\ (request.called /\ exec.pc = "idle") => reply.outcome = "returned"
  /\ http_calls <= 3

C12_Witness ==
  /\ reply.outcome = "returned"
  /\ reply.error_code = "ROUTER_INTERNAL_ERROR"
  /\ reply.provider_used # NoProvider

\* C13: every response with success = false has error, error_code and
\* failure populated, and every response with success = true has response
\* populated (possibly "", never null), for both provider families.
C13_FieldsPopulated ==
  reply.outcome = "returned" =>
    /\ ~reply.success =>
         reply.error # None /\ reply.error_code # None /\ reply.failure # NoFailure
    /\ reply.success => reply.response # None

\* C14: after a 303 response on any attempt of a Modal execution no further
\* HTTP request is issued for that execution: no retry, no followed redirect.
\* exec.response is the response of the latest attempt that got one, so a
\* request that follows a 303 is a step that issues a request with
\* exec'.response.status = 303.
C14_No303Retry ==
  /\ [][(exec.pc \in {"modal_post", "modal_sleep"} /\ http_calls' # http_calls) =>
          /\ exec'.pc = "modal_post"
          /\ http_calls' = http_calls + 1
          /\ exec'.response.status # 303]_vars
  /\ [](exec.pc \in {"modal_post", "modal_sleep"} => exec.response.status # 303)

C14_Witness ==
  /\ reply.failure.http_status = 303
  /\ http_calls = 3
  /\ exec.pc = "idle"

\* C15: the failure returned for an execution that ended with a 303 response
\* carries a container-failure code: neither PROVIDER_HTTP_303 nor a
\* response-parse-error code, whatever the body of the 303 is.
C15_ContainerFailureCode ==
  (/\ reply.outcome = "returned"
   /\ reply.provider_used # NoProvider
   /\ reply.failure.http_status = 303) =>
     (providers[reply.provider_used].type = "modal" =>
        reply.failure.code \notin {"PROVIDER_HTTP_303", "MODAL_RESPONSE_PARSE_ERROR"})

\* a 200 response that reports success with an empty response text
EmptySuccess ==
  [status |-> 200,
   body |-> [kind |-> "dict", success |-> "true", response |-> "", error |-> Absent]]

MissingText ==
  [status |-> 200,
   body |-> [kind |-> "dict", success |-> "true", response |-> Absent, error |-> Absent]]

Unclassified(resp) ==
  /\ resp.status \notin {200, 303}
  /\ ~(resp.status = 404 /\ SaysStopped(resp.body))

\* C17: a non-200 response that is not otherwise classified yields failure
\* code PROVIDER_HTTP_<status> with http_status = status and transient =
\* (status >= 500), for both families and whatever the body is; and no
\* PROVIDER_HTTP_<status> failure is produced for a response with status 200.
C17_HttpStatusMapping ==
  [][\A resp \in HttpResponses :
       (ModalResponds(resp) \/ GolemResponds(resp)) =>
          /\ Unclassified(resp) =>
               /\ reply'.outcome = "returned"
               /\ ~reply'.success
               /\ reply'.failure.code = ProviderHttp(resp.status)
               /\ reply'.failure.http_status = resp.status
               /\ reply'.failure.transient = (resp.status >= 500)
          /\ resp.status = 200 =>
               reply'.failure.code \notin {ProviderHttp(st) : st \in Statuses}]_vars

\* C20: run_inference never writes a provider's healthy or last_health_check
\* field, whatever the outcome of the execution and however many executions
\* fail in a row.
C20_ExecutionKeepsHealth ==
  [][HealthFields' = HealthFields]_vars

C20_Witness ==
  \E i \in ProviderIds :
    /\ providers[i].healthy
    /\ providers[i].success_rate = "<1.0"
    /\ reply.outcome = "returned"
    /\ ~reply.success
    /\ reply.provider_used = i

\* -------------------------------------------- health checker properties
\* probe i settles in this step
Settles(i) == probe[i] = "awaiting" /\ probe'[i] = "settled"

\* C18: health_check_providers starts one probe for every registered
\* provider before it waits on any of them and returns only after all probes
\* have settled; a probe that fails or raises neither keeps the other probes
\* from completing nor makes health_check_providers raise: the call always
\* returns.
C18_GatherAllProbes ==
  /\ [](checker = "gather" => \A i \in ProviderIds : probe[i] # "idle")
  /\ [][\A i \in ProviderIds :
          Settles(i) => \A j \in ProviderIds : probe[j] \in {"awaiting", "settled"}]_vars
  /\ [][(checker = "gather" /\ checker' # "gather") =>
          /\ checker' = "idle"
          /\ \A i \in ProviderIds : probe[i] = "settled"]_vars
  /\ (checker = "gather") ~> (checker = "idle")

C18_Witness ==
  /\ checker = "idle"
  /\ \E i, j \in ProviderIds :
       /\ ~providers[i].healthy
       /\ providers[i].last_health_check = 0
       /\ providers[j].healthy
       /\ providers[j].last_health_check = Latest

\* C19: every probe that settles writes both health fields of its own
\* provider and of no other: healthy (false whenever the probe ended in an
\* exception of any kind, also a transport error on the Golem GET /health)
\* and last_health_check (stamped at the probe's completion, also when the
\* probe ended in an exception).
C19_ProbeWritesBothFields ==
  [][\A i \in ProviderIds :
       /\ Settles(i) =>
            /\ providers'[i].last_health_check = Latest
            /\ \A j \in ProviderIds \ {i} : providers'[j] = providers[j]
       /\ (\E err \in HttpErrors : ProbeRaises(i, err)) => ~providers'[i].healthy]_vars


\* ------------------------------------------- properties of the feedback loop
\* an execution on a selected provider ends: the _run_*_inference call has
\* returned or raised and run_inference hands its response to the caller
ExecutionEnds == exec.pc # "idle" /\ exec'.pc = "idle"

\* C21: after every execution on a selected provider, whether it ended in a
\* success, a failure result or an exception raised by the provider call, that
\* provider's avg_latency and success_rate receive one moving-average update
\* each, and no other provider's metrics change.
C21_MetricsUpdatedOnce ==
  [][ExecutionEnds =>
       LET p == exec.provider
       IN /\ providers'[p].avg_latency = ema_latency(providers[p].avg_latency)
          /\ providers'[p].success_rate =
               ema_success(providers[p].success_rate, reply'.success)
          /\ \A q \in ProviderIds \ {p} : providers'[q] = providers[q]]_vars


IdleWorker(r, k) == worker[r][k].pc = "waiting" /\ queue[r] = <<>>

\* the next step of worker k of region r starts the head of the global retry
\* queue
ClaimsGlobalHead(r, k) ==
  /\ Dequeue(r, k) \/ Wake(r, k)
  /\ worker'[r][k].pc = "inference"
  /\ worker'[r][k].job = Head(global_retry_queue)

\* C23: a retried job on the global retry queue can be absorbed by any idle
\* region: a worker that waits on its empty regular queue can claim the head
\* of the global retry queue, without a new job arriving in its own queue and
\* whatever the origin region's worker is doing.
C23_IdleRegionAbsorbsRetry ==
  \A r \in Regions, k \in Slots :
    IdleWorker(r, k) /\ global_retry_queue # <<>> => ENABLED ClaimsGlobalHead(r, k)

\* the worker of region r is held up: it awaits an inference call or sleeps
\* in a retry backoff
Blocked(r) == \E k \in Slots : worker[r][k].pc \in {"inference", "backoff"}

\* C24: the region workers progress independently: while the worker of one
\* region is blocked in an inference call or in a backoff sleep, a worker of
\* another region at the head of its loop can make its lane checks, one
\* resumed by a put can start the job, and once the loop has no ready worker
\* left one that awaits its own inference call can have it return and finish
\* the job.
C24_IndependentWorkers ==
  \A r \in Regions, q \in Regions, k \in Slots :
    r # q /\ Blocked(r) =>
      /\ worker[q][k].pc \in {"top", "created"} => ENABLED Dequeue(q, k)
      /\ worker[q][k].pc = "waiting" /\ queue[q] # <<>> => ENABLED Wake(q, k)
      /\ worker[q][k].pc = "inference" /\ ~Running =>
           /\ ENABLED InferenceReturns(q, k, "ok")
           /\ ENABLED InferenceRaises(q, k)
      /\ worker[q][k].pc = "backoff" /\ ~Running => ENABLED BackoffDone(q, k)

C24_Witness ==
  \E r \in Regions, q \in Regions, k \in Slots, m \in Slots :
    /\ r # q
    /\ worker[r][k].pc = "backoff" /\ worker[r][k].sleep = 4
    /\ worker[q][m].pc = "waiting"
    /\ queue[q] # <<>>

\* ---------------------------------------------- properties of admission
\* C25: enqueue_job(job) appends the job to the tail of the regular queue of
\* job.region upper-cased when that is one of US, EU, ASIA, and changes no
\* other lane, counter or flag; for any other region name it raises (the job
\* is not accepted) and every queue stays as it was.
C25_EnqueueJobFrame ==
  [][\A j \in Jobs :
       ~job[j].created /\ job'[j].created /\ ~job'[j].is_retry =>
         LET R == Upper(job'[j].region)
         IN /\ IF R \in Regions
               THEN /\ job'[j].accepted
                    /\ queue' = [queue EXCEPT ![R] = Append(@, j)]
               ELSE /\ ~job'[j].accepted
                    /\ queue' = queue
            /\ UNCHANGED <<retry_queue, global_retry_queue, processing,
                           current_job, completed_count, failed_count,
                           workers_started, worker>>
            /\ \A i \in Jobs \ {j} : job'[i] = job[i]]_vars

C25_Witness ==
  /\ Len(queue["EU"]) = 2
  /\ job[queue["EU"][2]].region = "eu"
  /\ job[queue["EU"][1]].region = "eu"
  /\ workers_started

\* ------------------------------------------- properties of the selector
\* C26: select_provider has no side effects: a call leaves the registry's
\* provider list, its order and every field of every provider as they were,
\* and a call repeated with the same request on the same registry returns
\* the same provider.
C26_SelectIsPure ==
  [][/\ providers' = providers
     /\ request.called /\ request' = request => selected' = selected]_vars

C26_Witness ==
  /\ request.called
  /\ selected > 1
  /\ 1 \in WithCapacity
  /\ TupleLess(RankKey(selected), RankKey(1))

\* ------------------------------------------ properties of the error taxonomy
\* C27: every FailureRecord the router hands to a caller, on every failure
\* path, has a stage that is one of provider_selection, provider_execution,
\* response_parsing, router_internal.
C27_FailureStages ==
  reply.failure # NoFailure =>
    reply.failure.stage \in {"provider_selection", "provider_execution",
                             "response_parsing", "router_internal"}

\* ---------------------------------------- properties of the application
\* C28: in the running application a job accepted by the queued-admission
\* operation is eventually dequeued by a region worker and handed to the
\* execution engine (started_at is stamped as the inference call is issued).
C28_AcceptedJobDequeued ==
  \A j \in Jobs : job[j].accepted ~> job[j].started_at

\* ------------------------------------------- properties of the backoff
\* C30: after a failed attempt that leaves retry_count below max_retries the
\* worker first sleeps min(2^retry_count, 60) seconds, 2 after the first
\* failure and 4 after the second, and only when the sleep ends puts the job
\* on the global retry queue; during the backoff the job is in no lane, no
\* other worker holds it or starts it, and the sleeping worker dequeues no
\* other job.
C30_BackoffBeforeRequeue ==
  /\ [](\A r \in Regions, k \in Slots :
          worker[r][k].pc = "backoff" =>
            LET j == worker[r][k].job
            IN /\ job[j].retry_count \in {1, 2}
               /\ worker[r][k].sleep = (IF job[j].retry_count = 1 THEN 2 ELSE 4)
               /\ ~InAnyLane(j)
               /\ \A q \in Regions, m \in Slots :
                    <<q, m>> # <<r, k>> => worker[q][m].job # j)
  /\ [][\A r \in Regions, k \in Slots :
          /\ ( /\ worker[r][k].pc = "inference"
               /\ job'[worker[r][k].job].retry_count \in {1, 2}
               /\ job'[worker[r][k].job].retry_count
                    # job[worker[r][k].job].retry_count )
             => /\ worker'[r][k].pc = "backoff"
                /\ global_retry_queue' = global_retry_queue
          /\ worker[r][k].pc = "backoff" =>
               \/ /\ worker'[r][k] = worker[r][k]
                  /\ attempts'[worker[r][k].job] = attempts[worker[r][k].job]
               \/ /\ worker'[r][k].pc \in {"top", "pause"}
                  /\ worker'[r][k].job = NoJob
                  /\ global_retry_queue' =
                       Append(global_retry_queue, worker[r][k].job)]_vars

C30_Witness ==
  \E r \in Regions, q \in Regions, k \in Slots, m \in Slots :
    /\ r # q
    /\ worker[r][k].pc = "backoff" /\ worker[r][k].sleep = 4
    /\ job[worker[r][k].job].retry_count = 2
    /\ IdleWorker(q, m)
    /\ global_retry_queue = <<>>

\* ------------------------------------------- properties of the metrics
\* C29 as stated: starting from avg_latency 0, one execution at latency L
\* yields exactly 0.1 x L, every further execution at the same latency yields
\* a larger value that never exceeds L, and success_rate stays within [0, 1]
\* after any sequence of executions.
C29_EmaWithinLatency ==
  /\ [](timing.runs = 1 =>
          providers[1].avg_latency = FMul(timing.inference_time, F01))
  /\ [](FLeq(providers[1].avg_latency, timing.inference_time))
  /\ [](FLeq(Zero, providers[1].success_rate) /\ FLeq(providers[1].success_rate, One))
  /\ [][FLess(providers[1].avg_latency, providers'[1].avg_latency)]_vars

\* C29 as amended: each update sets avg_latency to 0.9 x old + 0.1 x elapsed
\* and success_rate to 0.9 x old + (0.1 or 0), every product and sum rounded
\* to the nearest double; from 0 one execution at latency L yields the double
\* 0.1 x L, further executions at the same latency yield values that never
\* decrease and never pass the double next above L, and success_rate stays
\* within [0, 1].
C29_EmaRounded ==
  /\ [](timing.runs = 1 =>
          providers[1].avg_latency = FMul(timing.inference_time, F01))
  /\ [](FLeq(providers[1].avg_latency, NextUp(timing.inference_time)))
  /\ [](FLeq(Zero, providers[1].success_rate) /\ FLeq(providers[1].success_rate, One))
  /\ [][/\ FLeq(providers[1].avg_latency, providers'[1].avg_latency)
        /\ providers'[1].avg_latency =
             FAdd(FMul(providers[1].avg_latency, F09),
                  FMul(timing.inference_time, F01))
        /\ providers'[1].success_rate \in
             {FAdd(FMul(providers[1].success_rate, F09), F01),
              FMul(providers[1].success_rate, F09)}]_vars

C29_Witness ==
  /\ timing.runs = MaxRuns
  /\ FLess(timing.inference_time, providers[1].avg_latency)
  /\ FLess(providers[1].success_rate, One)

\* C31: a Modal 404 whose body carries the stopped-application marker is
\* retried: after it on attempt k (k = exec.attempt + 1) the engine sleeps
\* 2 * k seconds, and after the sleep of an attempt that is not the third it
\* issues the call again; one execution issues at most 3 HTTP requests,
\* whatever its attempts end in.
C31_StoppedAppRetried ==
  /\ [][\A resp \in {r \in HttpResponses : r.status = 404 /\ SaysStopped(r.body)} :
          ModalResponds(resp) =>
            /\ exec'.pc = "modal_sleep"
            /\ exec'.sleep = 2 * (exec.attempt + 1)
            /\ http_calls' = http_calls]_vars
  /\ [][(exec.pc = "modal_sleep" /\ exec.attempt < 2 /\ exec' # exec) =>
          /\ exec'.pc = "modal_post"
          /\ exec'.attempt = exec.attempt + 1
          /\ http_calls' = http_calls + 1]_vars
  /\ [](exec.pc \in {"modal_post", "modal_sleep"} => http_calls = exec.attempt + 1)
  /\ [](http_calls <= 3)

C31_Witness ==
  /\ exec.pc = "modal_post"
  /\ exec.attempt = 2
  /\ exec.response.status = 404
  /\ SaysStopped(exec.response.body)
  /\ exec.last_error = "TimeoutException"

\* C32: when every attempt of a Modal execution raises (exec.response is
\* still NoResponse: no attempt has returned a response), a raise on
\* attempt 1 or 2 is followed by a sleep of 2 s or 4 s, and the raise on
\* attempt 3 ends the execution without a sleep, after exactly 3 requests,
\* with a failure MODAL_REQUEST_FAILED that is transient.
C32_AllAttemptsRaise ==
  [][\A err \in HttpErrors :
       (ModalRaises(err) /\ exec.response = NoResponse) =>
         IF exec.attempt < 2
         THEN /\ exec'.pc = "modal_sleep"
              /\ exec'.sleep = 2 * (exec.attempt + 1)
              /\ exec'.response = NoResponse
              /\ reply' = NoReply
         ELSE /\ exec'.pc = "idle"
              /\ exec'.sleep = 0
              /\ http_calls' = 3
              /\ reply'.outcome = "returned"
              /\ ~reply'.success
              /\ reply'.error_code = "MODAL_REQUEST_FAILED"
              /\ reply'.failure.code = "MODAL_REQUEST_FAILED"
              /\ reply'.failure.transient]_vars

C32_Witness ==
  /\ exec.pc = "idle"
  /\ http_calls = 3
  /\ reply.outcome = "returned"
  /\ reply.error_code = "MODAL_REQUEST_FAILED"
  /\ reply.failure.transient

C34_FinalAttemptDecides ==
  [][\A err \in HttpErrors :
       (ModalRaises(err) /\ exec.attempt = 2) =>
         /\ reply'.outcome = "returned"
         /\ reply'.error_code = "MODAL_REQUEST_FAILED"]_vars

\* the lane a worker of region r takes its next job from: the first of the
\* global retry queue, the region's retry queue and its regular queue that
\* is not empty
FirstLane(r) ==
  IF global_retry_queue # <<>> THEN global_retry_queue
  ELSE IF retry_queue[r] # <<>> THEN retry_queue[r]
  ELSE queue[r]

\* the worker is blocked in a get(): suspended, and not in its inference
\* call, a sleep or its start
InGet(r, k) ==
  worker[r][k].pc \notin {"none", "created", "top", "inference", "backoff", "pause"}

\* C35: a worker's test of a lane and its removal of the job are one step:
\* a worker at the head of its loop either starts the head of the first
\* non-empty lane in that very step, or finds all three lanes empty and
\* starts waiting on its own regular queue; a blocked worker is never blocked
\* on a retry lane: it waits on its regular queue and is resumed with the
\* head of that queue.
C35_TestAndGetAtomic ==
  /\ [][\A r \in Regions, k \in Slots :
          (worker[r][k].pc \in {"top", "created"} /\ worker'[r][k] # worker[r][k]) =>
            IF FirstLane(r) = <<>>
            THEN worker'[r][k].pc = "waiting"
            ELSE /\ worker'[r][k].pc = "inference"
                 /\ worker'[r][k].job = Head(FirstLane(r))
                 /\ \A q \in Regions, m \in Slots :
                      (q # r \/ m # k) => worker'[q][m] = worker[q][m]]_vars
  /\ [][\A r \in Regions, k \in Slots :
          (InGet(r, k) /\ worker'[r][k] # worker[r][k]) =>
            /\ queue[r] # <<>>
            /\ worker'[r][k].pc = "inference"
            /\ worker'[r][k].job = Head(queue[r])
            /\ queue'[r] = Tail(queue[r])
            /\ UNCHANGED <<retry_queue, global_retry_queue>>]_vars
  /\ [](\A r \in Regions, k \in Slots : InGet(r, k) => worker[r][k].pc = "waiting")

\* two workers reach their lane checks while the global retry queue holds a
\* job: one has taken it and the other, finding the lanes empty, waits on
\* its own regular queue
C35_Witness ==
  \E r, q \in Regions :
    /\ r # q
    /\ worker[r][1].pc = "inference"
    /\ job[worker[r][1].job].retry_count > 0
    /\ job[worker[r][1].job].region # r
    /\ worker[q][1].pc = "waiting"
    /\ job[worker[r][1].job].region = q

\* the jobs that have reached a terminal state: completed_at is stamped
TerminalJobs == {j \in Jobs : job[j].completed_at}

\* the sum over all regions of completed_count + failed_count
Counted ==
  completed_count["US"] + failed_count["US"] + completed_count["EU"]
    + failed_count["EU"] + completed_count["ASIA"] + failed_count["ASIA"]

\* C36: a job that becomes terminal increments exactly one counter by one in
\* that step: completed_count when its attempt returned, failed_count when
\* its retries are exhausted, of the region whose worker ran that final
\* attempt, which is the job's home region when the job never failed; no
\* other step changes a counter, so the sum of all counters equals the number
\* of terminal jobs.
C36_CountedOnce ==
  /\ [](Counted = Cardinality(TerminalJobs))
  /\ [][\A j \in Jobs :
          (job'[j].completed_at /\ ~job[j].completed_at) =>
            \E r \in Regions, k \in Slots :
              /\ worker[r][k].pc = "inference"
              /\ worker[r][k].job = j
              /\ IF job'[j].retry_count = max_retries
                 THEN /\ failed_count' = [failed_count EXCEPT ![r] = @ + 1]
                      /\ completed_count' = completed_count
                 ELSE /\ completed_count' = [completed_count EXCEPT ![r] = @ + 1]
                      /\ failed_count' = failed_count
                      /\ job'[j].retry_count = job[j].retry_count
              /\ job'[j].retry_count = 0 => r = Upper(job[j].region)]_vars
  /\ [][(completed_count' # completed_count \/ failed_count' # failed_count) =>
          \E j \in Jobs : job'[j].completed_at /\ ~job[j].completed_at]_vars
  /\ [][\A j \in Jobs : job[j].completed_at => job'[j] = job[j]]_vars

\* a job retried through the global lane has ended in a region that is not
\* its home region, and is counted there
C36_Witness ==
  \E j \in Jobs, r \in Regions :
    /\ job[j].completed_at
    /\ job[j].retry_count > 0
    /\ r # Upper(job[j].region)
    /\ completed_count[r] + failed_count[r] = 1
    /\ completed_count[Upper(job[j].region)] + failed_count[Upper(job[j].region)] = 0
    /\ Cardinality(TerminalJobs) = 1

\* C37: every job has 0 <= retry_count <= max_retries; a job on the global
\* retry queue has 1 <= retry_count < max_retries; retry_count = max_retries
\* only on a job that ended failed; a job with completed_at stamped is on no
\* lane; and a region's retry_queue grows only by a caller's
\* enqueue(is_retry=True) of a new job, never by a worker's put.
C37_RetryCountBounds ==
  /\ [](\A j \in Jobs :
          /\ job[j].retry_count >= 0
          /\ job[j].retry_count <= max_retries
          /\ InLane(j, global_retry_queue) =>
                job[j].retry_count >= 1 /\ job[j].retry_count < max_retries
          /\ job[j].retry_count = max_retries =>
                /\ job[j].completed_at
                /\ job[j].last_error
                /\ \E r \in Regions : failed_count[r] > 0
          /\ job[j].completed_at => ~InAnyLane(j))
  /\ [][\A r \in Regions :
          retry_queue'[r] # retry_queue[r] =>
            \/ retry_queue[r] # <<>> /\ retry_queue'[r] = Tail(retry_queue[r])
            \/ \E j \in Jobs :
                 /\ ~job[j].created
                 /\ job'[j].is_retry
                 /\ retry_queue'[r] = Append(retry_queue[r], j)
                 /\ worker' = worker]_vars

\* one job has exhausted its retries while another waits on the global
\* retry queue for its third attempt
C37_Witness ==
  \E i, j \in Jobs :
    /\ job[i].retry_count = max_retries
    /\ job[i].completed_at
    /\ InLane(j, global_retry_queue)
    /\ job[j].retry_count = 2

\* the probes of provider i whose HTTP call is in flight
InFlightProbes(i) == {c \in Callers : probe[c][i].pc = "awaiting"}

\* C38: health checking has a single writer per provider: at most one probe
\* of a provider is in flight at any time, and when the probes of a provider
\* have all settled its healthy flag is what the most recently started one
\* wrote.
C38_SingleProbePerProvider ==
  \A i \in ProviderIds :
    /\ Cardinality(InFlightProbes(i)) <= 1
    /\ (\A c \in Callers : probe[c][i].pc = "settled") =>
          providers[i].healthy = probe[checker.latest][i].healthy

\* avg_latency after the EMA updates of the executions of done, in order
RECURSIVE LatencyAfter(_)
LatencyAfter(done) ==
  IF done = <<>> THEN Zero
  ELSE FAdd(FMul(LatencyAfter(SubSeq(done, 1, Len(done) - 1)), F09),
            FMul(done[Len(done)].inference_time, F01))

\* C39: with executions overlapping on one provider no metrics update is
\* lost: after n executions have returned a result the provider's
\* avg_latency is the outcome of n EMA updates applied in the order of
\* completion, and each returned result also applies one EMA update to
\* success_rate (0.9 x old + 0.1 or + 0).
C39_NoLostUpdate ==
  /\ [](providers[1].avg_latency = LatencyAfter(timing.done))
  /\ [][Len(timing'.done) = Len(timing.done) + 1 =>
          providers'[1].success_rate \in
            {FAdd(FMul(providers[1].success_rate, F09), F01),
             FMul(providers[1].success_rate, F09)}]_vars

\* the registry reg after failed executions and health probes on the
\* providers of d: their success_rate has dropped and their last_health_check
\* is stamped, every other field of every provider is as in reg
Degraded(reg, d) ==
  [i \in ProviderIds |->
     IF i \in d THEN [reg[i] EXCEPT !.success_rate = "<1.0",
                                   !.last_health_check = Latest]
     ELSE reg[i]]

\* the sets of providers whose feedback fields the snapshots change: none,
\* one provider, all but one, all
DegradedSets ==
  {d \in SUBSET ProviderIds :
     Cardinality(d) <= 1 \/ Cardinality(ProviderIds \ d) <= 1}

\* C40: the result of select_provider does not depend on success_rate or
\* last_health_check: for the request just served, every registry snapshot
\* that differs from the registry only in those two fields, of the providers
\* of a set of DegradedSets, yields the provider that was selected.
C40_SelectionIgnoresFeedback ==
  request.called =>
    \A d \in DegradedSets :
      select_provider(Degraded(providers, d),
                      [region_preference |-> request.region_preference,
                       cost_priority |-> request.cost_priority]) = selected

\* a provider was selected while another healthy provider of the same
\* region, cost, latency and capacity stood behind it in the list: a
\* ranking that looked at success_rate could prefer that one
C40_Witness ==
  /\ request.called
  /\ selected # NoProvider
  /\ \E q \in ProviderIds :
       /\ q # selected
       /\ providers[q] = providers[selected]
       /\ providers[q].max_concurrent > 0

====
